---- MODULE Spec2Model ----
\* Verification model of byllyfish/pylibofp: the zof event dispatcher
\* (src/zof/controller.py, src/zof/driver.py) and the pylibofp controller
\* (src/pylibofp/controller.py, src/pylibofp/controllerapp.py).
EXTENDS Integers, Sequences, FiniteSets, TLC

\* ---------------------------------------------------------------- bounds
MaxEvents == 3
MaxTasks == 2
MaxQuits == 1
MaxEarly == 1

\* ============================================================ zof controller
VARIABLES
    event_queue,   \* Driver.event_queue (asyncio.Queue), oldest first
    posted,        \* number of events put on the queue so far (with the exit
                   \* signals, at most MaxEvents inputs)
    connections,   \* Controller._connections: conn_id -> Datapath object (0: absent)
    dpids,         \* Controller._dpids: dp_id -> Datapath object (0: absent)
    datapaths,     \* the Datapath objects made so far: [conn_id, id, closed]
    ztasks,        \* the tasks made through create_task: [scope, pc, must_cancel, origin]
    ready,         \* asyncio's ready queue: task ids, 0 is the task inside run()
    running,       \* the task that holds the single thread, NoTask between steps
    zpc,           \* position of zof_event_loop: "run", "get", "woken", "yield"
    zlog,          \* what handlers and tasks did, in order
    zerrors,       \* exceptions logged by zof_event_loop's "except Exception"
    zrun,          \* position of Controller.run
    zcancel,       \* the run task was cancelled and has not yet seen it
    zquit,         \* number of exit signals received (zof_quit)
    zapp,          \* the app whose on_start / on_stop comes next
    zpre,          \* number of events posted before zof_event_loop was entered
    zexc,          \* what the apps' on_exception handler does: "return" or "raise"
    zmethods,      \* per app of Controller.apps, the names of its on_ methods
    zcache,        \* Controller._handler_cache, by handler name
    zfound,        \* the last call of zof_find_handlers or zof_dispatch_event
    zfirst         \* per handler name, what the first lookup returned

zlife == <<zrun, zcancel, zquit, zapp, zpre, zexc>>

\* the handler lookup
hvars == <<zmethods, zcache, zfound, zfirst>>

zcore == <<event_queue, posted, connections, dpids, datapaths, ztasks, ready,
           running, zpc, zlog, zerrors, zlife>>

zvars == <<zcore, hvars>>

\* the state of the pylibofp controller
VARIABLES
    reqs,        \* Controller._reqs in insertion order: [xid, fut, expiration]
    xid,         \* Controller._xid
    futs,        \* the _ReplyFuture objects: [xid, results, future, done, deadline]
    consumers,   \* the task that awaits each handle: [pc, op, mode, inbox, got]
    delivered,   \* per handle, what set_result / set_exception were called with
    pqueue,      \* Controller._event_queue, oldest first
    nframes,     \* number of frames the backend has sent
    now,         \* the loop's clock, in seconds
    idle_due,    \* when the call_later(_IDLE_INTERVAL, _idle) timer fires, NotArmed if none
    swept_at,    \* the clock value at the last run of _idle
    evloop,      \* _event_loop: "running", or "dead" after an uncaught exception
    app_msgs     \* the frames passed to the apps (app.message)

pvars == <<reqs, xid, futs, consumers, delivered, pqueue, nframes, now, idle_due,
           swept_at, evloop, app_msgs>>

\* the pylibofp controller's life cycle
VARIABLES
    phase,          \* Controller._phase
    phase_log,      \* the values _phase has had, in order
    atasks,         \* Controller._tasks: the tasks the apps started
    ctl_queue,      \* Controller._event_queue
    queue_open,     \* _event_queue is not None
    cready,         \* asyncio's ready queue: controller tasks that can step
    run_pc,         \* where _run is
    start_pc,       \* where _start is
    start_rpcs,     \* the rpc calls _start still has to make
    rpc,            \* the reply future of the rpc call _start awaits
    loop_pc,        \* where _event_loop is
    inbuf,          \* lines of the connection not yet read
    eof,            \* the connection's output has ended
    conn_closed,    \* Connection.close was called
    aio,            \* "forever": run_forever, "drain": _shutdown_cleanly, "closed"
    idle_task,      \* Controller._idle_task
    app_events,     \* internal events the apps received (app.event)
    chan_msgs,      \* channel messages the apps received (app.message)
    lines_sent,     \* number of lines the connection has produced (with the
                    \* signals, at most MaxLines inputs)
    signals,        \* number of signals received
    events_posted,  \* the internal events passed to _post_event, in order
    major_version,  \* result.major_version of the last rpc result
    itask,          \* Controller._interruptable_task: "none", or the task's state
    drains,         \* what the calls of _run_pending by _shutdown_cleanly came to
    last_signal,    \* the name of the last signal received
    cancel_key      \* the scope key of the last direct call of _cancel_tasks

cvars == <<phase, phase_log, atasks, ctl_queue, queue_open, cready, run_pc,
           start_pc, start_rpcs, rpc, loop_pc, inbuf, eof, conn_closed, aio,
           idle_task, app_events, chan_msgs, lines_sent, signals, events_posted,
           major_version, itask, drains, last_signal, cancel_key>>

\* the pylibofp apps and the tasks they start
VARIABLES
    controller_apps,  \* Controller.apps: the ControllerApp objects, [id, name, precedence]
    app_handlers,     \* per app id, ControllerApp.handlers: handler type -> list
    last_op,          \* the last call made on the apps, and what came of it
    tasks_registry,   \* Controller._tasks: the lists by scope key, as [key, task] entries
    wrapped           \* per task of atasks, where its capture_exception wrapper is

avars == <<controller_apps, app_handlers, last_op, tasks_registry, wrapped>>

NoTask == 0 - 1
LoopTask == 0

ConnIds == {1, 2}
\* datapath_id strings as the backend writes them: hex digits and colons
DatapathIdStrings == { <<"0", "1">>, <<"0", ":", "1">>, <<"0", "2">> }
EventTypes == {"CHANNEL_UP", "CHANNEL_DOWN", "PACKET_IN"}

\* the apps given to Controller(apps): the on_<type> methods each one has
AppHandlers == << {"CHANNEL_UP", "CHANNEL_DOWN", "PACKET_IN"},
                  {"CHANNEL_UP", "CHANNEL_DOWN", "EXCEPTION"} >>

\* what a handler (user code) of each app does when called: it returns, it
\* makes a task with create_task, it raises an exception, or it force-closes
\* its datapath
HandlerActs == << {"plain", "raise", "close"}, {"plain", "spawn"} >>

HexDigit(c) == CASE c = "0" -> 0 [] c = "1" -> 1 [] c = "2" -> 2

\* str.replace(':', '')
RECURSIVE StripColons(_)
StripColons(s) ==
    IF s = <<>> THEN <<>>
    ELSE IF Head(s) = ":" THEN StripColons(Tail(s))
         ELSE <<Head(s)>> \o StripColons(Tail(s))

\* int(digits, 16)
RECURSIVE HexValue(_)
HexValue(s) ==
    IF s = <<>> THEN 0
    ELSE HexValue(SubSeq(s, 1, Len(s) - 1)) * 16 + HexDigit(s[Len(s)])

ParseDatapathId(s) == HexValue(StripColons(s))

DpIds == { ParseDatapathId(s) : s \in DatapathIdStrings }

\* zlog entries: a handler call ("call": event type, the event's enqueue ordinal,
\* the app, the Datapath given) or what a task did ("task": BEGIN, NEXT, RETURN
\* or CANCEL, the ordinal of the event whose handler made it, its scope)
LogEntry(k, type, seq, app, task, dp) ==
    [k |-> k, type |-> type, seq |-> seq, app |-> app, task |-> task, dp |-> dp]

\* ---------------------------------------------------------------- asyncio
\* Task.cancel(): a task that is done ignores it; a task blocked on a future is
\* woken (put on the ready queue); the CancelledError is thrown at its next step.
TaskLive(t) == t.pc \notin {"done", "cancelled"}

CancelTask(tasks, rdy, i) ==
    IF ~TaskLive(tasks[i]) THEN [tasks |-> tasks, ready |-> rdy]
    ELSE [tasks |-> [tasks EXCEPT ![i].must_cancel = TRUE,
                                  ![i].pc = IF @ = "wait" THEN "woken" ELSE @],
          ready |-> IF tasks[i].pc = "wait" THEN Append(rdy, i) ELSE rdy]

RECURSIVE CancelAll(_, _, _)
CancelAll(tasks, rdy, ids) ==
    IF ids = {} THEN [tasks |-> tasks, ready |-> rdy]
    ELSE LET i == CHOOSE x \in ids : \A y \in ids : x <= y
             r == CancelTask(tasks, rdy, i)
         IN CancelAll(r.tasks, r.ready, ids \ {i})

\* Datapath.zof_cancel_tasks: cancel every task made in the datapath's scope
zof_cancel_tasks(tasks, rdy, dp) ==
    CancelAll(tasks, rdy, { i \in 1..Len(tasks) : tasks[i].scope = dp })

\* Datapath.create_task / Controller.create_task: the new task's first step is
\* scheduled with call_soon
create_task(tasks, rdy, scope, origin) ==
    [tasks |-> Append(tasks, [scope |-> scope, pc |-> "new",
                              must_cancel |-> FALSE, origin |-> origin]),
     ready |-> Append(rdy, Len(tasks) + 1)]

\* ---------------------------------------------------------------- driver
\* (mutant) the new event is put in front of the queue
post_event_front(q, ev) == <<ev>> \o q

\* Driver.post_event: put_nowait appends to the queue
post_event(q, ev) == Append(q, ev)

\* Queue.get on a non-empty queue: the oldest item
queue_get(q) == [event |-> Head(q), rest |-> Tail(q)]

\* ---------------------------------------------------------------- dispatch
\* Controller.zof_find_handlers: the apps that have on_<type>, in app order
zof_find_handlers(type) ==
    SelectSeq([i \in 1..Len(AppHandlers) |-> i], LAMBDA a : type \in AppHandlers[a])

\* Controller.on_exception: only the first app that has on_exception is
\* called; without one the exception is logged. A handler that raises leaves
\* an "excfail" entry: its exception leaves on_exception.
on_exception(log, type, seq, dp) ==
    LET having == zof_find_handlers("EXCEPTION")
        called == Append(log, LogEntry("exc", type, seq, Head(having), 0, dp))
    IN IF having = <<>> THEN log
       ELSE IF zexc = "raise"
       THEN Append(called, LogEntry("excfail", type, seq, Head(having), 0, dp))
       ELSE called

\* (mutant) the exception of an on_exception handler is swallowed
DispatchFailed_swallowed(log, seq) == FALSE

\* the dispatch of event seq was left by an exception of on_exception
DispatchFailed(log, seq) ==
    log # <<>> /\ log[Len(log)].k = "excfail" /\ log[Len(log)].seq = seq

\* the handlers called with the synthetic CHANNEL_DOWN of a datapath
RECURSIVE SyntheticCalls(_, _, _, _)
SyntheticCalls(hs, log, seq, dp) ==
    IF hs = <<>> THEN log
    ELSE SyntheticCalls(Tail(hs),
             Append(log, LogEntry("synth", "CHANNEL_DOWN", seq, Head(hs), 0, dp)),
             seq, dp)

\* Datapath.close(force=True): the datapath is marked closed, its tasks are
\* cancelled and the apps are given a synthetic CHANNEL_DOWN
close(st, dp, seq) ==
    IF dp = 0 \/ st.datapaths[dp].closed THEN st
    ELSE LET c == zof_cancel_tasks(st.tasks, st.ready, dp)
         IN [log |-> SyntheticCalls(zof_find_handlers("CHANNEL_DOWN"),
                         Append(st.log, LogEntry("close", "CLOSE", seq, 0, 0, dp)),
                         seq, dp),
             tasks |-> c.tasks,
             ready |-> c.ready,
             datapaths |-> [st.datapaths EXCEPT ![dp].closed = TRUE]]

\* (mutant) zof_dispatch_event without its try: the exception of a handler ends
\* the dispatch
RECURSIVE CallHandlers_propagate(_, _, _, _, _)
CallHandlers_propagate(hs, acts, dp, ev, st) ==
    IF hs = <<>> THEN st
    ELSE LET called == [st EXCEPT !.log =
                           Append(@, LogEntry("call", ev.type, ev.seq, Head(hs), 0, dp))]
             made == create_task(called.tasks, called.ready, dp, ev.seq)
         IN CASE Head(acts) = "spawn" /\ Len(st.tasks) < MaxTasks ->
                     CallHandlers_propagate(Tail(hs), Tail(acts), dp, ev,
                         [called EXCEPT !.tasks = made.tasks, !.ready = made.ready])
              [] Head(acts) = "raise" ->
                     [called EXCEPT !.log =
                         Append(@, LogEntry("raise", ev.type, ev.seq, Head(hs), 0, dp))]
              [] Head(acts) = "close" ->
                     CallHandlers_propagate(Tail(hs), Tail(acts), dp, ev,
                         close(called, dp, ev.seq))
              [] OTHER -> CallHandlers_propagate(Tail(hs), Tail(acts), dp, ev, called)

\* Controller.zof_dispatch_event: call each handler in order. acts[i] is what
\* the i-th handler does; st carries the log, the tasks, the ready queue and
\* the Datapath objects.
RECURSIVE CallHandlers(_, _, _, _, _)
CallHandlers(hs, acts, dp, ev, st) ==
    IF hs = <<>> THEN st
    ELSE LET called == [st EXCEPT !.log =
                           Append(@, LogEntry("call", ev.type, ev.seq, Head(hs), 0, dp))]
             made == create_task(called.tasks, called.ready, dp, ev.seq)
             after ==
                 CASE Head(acts) = "spawn" /\ Len(st.tasks) < MaxTasks ->
                          [called EXCEPT !.tasks = made.tasks, !.ready = made.ready]
                   [] Head(acts) = "raise" ->
                          [called EXCEPT !.log = on_exception(
                               Append(@, LogEntry("raise", ev.type, ev.seq, Head(hs), 0, dp)),
                               ev.type, ev.seq, dp)]
                   [] Head(acts) = "close" -> close(called, dp, ev.seq)
                   [] OTHER -> called
         IN IF Head(acts) = "raise" /\ DispatchFailed(after.log, ev.seq)
            THEN after
            ELSE CallHandlers(Tail(hs), Tail(acts), dp, ev, after)

zof_dispatch_event(type, dp, ev, acts, st) ==
    CallHandlers(zof_find_handlers(type), acts, dp, ev, st)

ActChoices(type) ==
    LET hs == zof_find_handlers(type)
    IN { acts \in [1..Len(hs) -> UNION {HandlerActs[a] : a \in 1..Len(HandlerActs)}] :
           \A i \in 1..Len(hs) : acts[i] \in HandlerActs[hs[i]] }

\* ---------------------------------------------------------------- bookkeeping
\* (mutant) zof_channel_up without "assert dp_id not in self._dpids"
zof_channel_up_unchecked(ev) ==
    LET dp_id == ParseDatapathId(ev.datapath_id)
    IN IF connections[ev.conn_id] # 0
       THEN [ok |-> FALSE]
       ELSE [ok |-> TRUE,
             dp |-> Len(datapaths) + 1,
             datapaths |-> Append(datapaths,
                 [conn_id |-> ev.conn_id, id |-> dp_id, closed |-> FALSE]),
             connections |-> [connections EXCEPT ![ev.conn_id] = Len(datapaths) + 1],
             dpids |-> [dpids EXCEPT ![dp_id] = Len(datapaths) + 1]]

\* Controller.zof_channel_up: [ok |-> FALSE] is the AssertionError
zof_channel_up(ev) ==
    LET dp_id == ParseDatapathId(ev.datapath_id)
    IN IF connections[ev.conn_id] # 0 \/ dpids[dp_id] # 0
       THEN [ok |-> FALSE]
       ELSE [ok |-> TRUE,
             dp |-> Len(datapaths) + 1,
             datapaths |-> Append(datapaths,
                 [conn_id |-> ev.conn_id, id |-> dp_id, closed |-> FALSE]),
             connections |-> [connections EXCEPT ![ev.conn_id] = Len(datapaths) + 1],
             dpids |-> [dpids EXCEPT ![dp_id] = Len(datapaths) + 1]]

\* (mutant) the datapath's tasks are not cancelled
zof_channel_down_no_cancel(ev) ==
    IF connections[ev.conn_id] = 0 THEN [ok |-> FALSE]
    ELSE LET dp == connections[ev.conn_id]
         IN [ok |-> TRUE,
             dp |-> IF datapaths[dp].closed THEN 0 ELSE dp,
             datapaths |-> [datapaths EXCEPT ![dp].closed = TRUE],
             connections |-> [connections EXCEPT ![ev.conn_id] = 0],
             dpids |-> [dpids EXCEPT ![datapaths[dp].id] = 0],
             tasks |-> ztasks,
             ready |-> ready]

\* (mutant) the Datapath is returned for dispatch even if it was closed before
zof_channel_down_dispatch_closed(ev) ==
    IF connections[ev.conn_id] = 0 THEN [ok |-> FALSE]
    ELSE LET dp == connections[ev.conn_id]
             c == zof_cancel_tasks(ztasks, ready, dp)
         IN [ok |-> TRUE,
             dp |-> dp,
             datapaths |-> [datapaths EXCEPT ![dp].closed = TRUE],
             connections |-> [connections EXCEPT ![ev.conn_id] = 0],
             dpids |-> [dpids EXCEPT ![datapaths[dp].id] = 0],
             tasks |-> c.tasks,
             ready |-> c.ready]

\* Controller.zof_channel_down: [ok |-> FALSE] is the KeyError of pop;
\* dp = 0 is the None returned for a datapath that was already closed
zof_channel_down(ev) ==
    IF connections[ev.conn_id] = 0 THEN [ok |-> FALSE]
    ELSE LET dp == connections[ev.conn_id]
             c == zof_cancel_tasks(ztasks, ready, dp)
         IN [ok |-> TRUE,
             dp |-> IF datapaths[dp].closed THEN 0 ELSE dp,
             datapaths |-> [datapaths EXCEPT ![dp].closed = TRUE],
             connections |-> [connections EXCEPT ![ev.conn_id] = 0],
             dpids |-> [dpids EXCEPT ![datapaths[dp].id] = 0],
             tasks |-> c.tasks,
             ready |-> c.ready]

\* Controller.zof_find_dp
zof_find_dp(ev) == connections[ev.conn_id]

\* ---------------------------------------------------------------- actions
\* the backend's protocol callback posts an event (OftrProtocol -> post_event);
\* a getter blocked in Queue.get is woken
PostEvent ==
    /\ running = NoTask
    /\ zrun = "loop" \/ (zrun \in {"start_wait", "listen_wait"} /\ zpre < MaxEarly)
    /\ posted + zquit < MaxEvents
    /\ \E type \in EventTypes, c \in ConnIds, d \in DatapathIdStrings :
         /\ type # "CHANNEL_UP" => d = <<"0", "1">>
         /\ event_queue' = post_event(event_queue,
                [type |-> type, conn_id |-> c, datapath_id |-> d, seq |-> posted + 1])
    /\ posted' = posted + 1
    /\ IF zpc = "get"
       THEN zpc' = "woken" /\ ready' = Append(ready, LoopTask)
       ELSE UNCHANGED <<zpc, ready>>
    /\ zpre' = IF zrun = "loop" THEN zpre ELSE posted + 1
    /\ UNCHANGED <<connections, dpids, datapaths, ztasks, running, zlog, zerrors,
                   zrun, zcancel, zquit, zapp, zexc>>
    /\ UNCHANGED <<pvars, cvars, hvars, avars>>

\* the asyncio loop runs the next ready callback
Schedule ==
    /\ running = NoTask
    /\ ready # <<>>
    /\ ~(Head(ready) = LoopTask /\ zcancel)
    /\ running' = Head(ready)
    /\ ready' = Tail(ready)
    /\ zpc' = IF Head(ready) = LoopTask THEN "run" ELSE zpc
    /\ UNCHANGED <<event_queue, posted, connections, dpids, datapaths, ztasks,
                   zlog, zerrors, zlife>>
    /\ UNCHANGED <<pvars, cvars, hvars, avars>>

\* zof_event_loop blocks in "await event_queue.get()" on an empty queue
LoopWait ==
    /\ running = LoopTask /\ zrun = "loop"
    /\ event_queue = <<>>
    /\ zpc' = "get"
    /\ running' = NoTask
    /\ UNCHANGED <<event_queue, posted, connections, dpids, datapaths, ztasks,
                   ready, zlog, zerrors, zlife>>
    /\ UNCHANGED <<pvars, cvars, hvars, avars>>

\* (mutant) the tail of an iteration without "await asyncio.sleep(0)": the loop
\* goes on to the next event
DispatchWithoutYield(type, dp, ev, tasks, rdy, dps) ==
    \E acts \in ActChoices(type) :
        LET st == zof_dispatch_event(type, dp, ev, acts,
                      [log |-> zlog, tasks |-> tasks, ready |-> rdy,
                       datapaths |-> dps])
        IN /\ zlog' = st.log
           /\ ztasks' = st.tasks
           /\ datapaths' = st.datapaths
           /\ zerrors' = IF DispatchFailed(st.log, ev.seq) THEN zerrors + 1 ELSE zerrors
           /\ ready' = st.ready
           /\ UNCHANGED <<zpc, running>>

\* the tail of an iteration that dispatches: zof_dispatch_event, then sleep(0);
\* an exception that leaves zof_dispatch_event is logged by the loop, which
\* takes the next event without yielding
DispatchAndYield(type, dp, ev, tasks, rdy, dps) ==
    \E acts \in ActChoices(type) :
        LET st == zof_dispatch_event(type, dp, ev, acts,
                      [log |-> zlog, tasks |-> tasks, ready |-> rdy,
                       datapaths |-> dps])
        IN /\ zlog' = st.log
           /\ ztasks' = st.tasks
           /\ datapaths' = st.datapaths
           /\ IF DispatchFailed(st.log, ev.seq)
              THEN /\ zerrors' = zerrors + 1
                   /\ ready' = st.ready
                   /\ UNCHANGED <<zpc, running>>
              ELSE /\ UNCHANGED zerrors
                   /\ ready' = Append(st.ready, LoopTask)
                   /\ zpc' = "yield"
                   /\ running' = NoTask

\* an iteration that ends in "continue" or in the logged exception: the loop
\* takes the next event without yielding
Skip(err) ==
    /\ zerrors' = zerrors + err
    /\ UNCHANGED <<connections, dpids, datapaths, ztasks, ready, zpc, running, zlog>>

\* one iteration of zof_event_loop on a CHANNEL_UP event
LoopChannelUp ==
    /\ running = LoopTask /\ zrun = "loop"
    /\ event_queue # <<>>
    /\ LET ev == queue_get(event_queue).event
           r == zof_channel_up(ev)
       IN /\ ev.type = "CHANNEL_UP"
          /\ event_queue' = queue_get(event_queue).rest
          /\ IF r.ok
             THEN /\ connections' = r.connections
                  /\ dpids' = r.dpids
                  /\ DispatchAndYield(ev.type, r.dp, ev, ztasks, ready, r.datapaths)
             ELSE Skip(1)
    /\ UNCHANGED <<posted, zlife>>
    /\ UNCHANGED <<pvars, cvars, hvars, avars>>

\* (mutant) the datapath's tasks are cancelled after the CHANNEL_DOWN handlers
\* were called instead of before
LoopChannelDown_cancel_after ==
    /\ running = LoopTask /\ zrun = "loop"
    /\ event_queue # <<>>
    /\ LET ev == queue_get(event_queue).event
           r == zof_channel_down_no_cancel(ev)
       IN /\ ev.type = "CHANNEL_DOWN"
          /\ event_queue' = queue_get(event_queue).rest
          /\ IF ~r.ok THEN Skip(1)
             ELSE /\ connections' = r.connections
                  /\ dpids' = r.dpids
                  /\ UNCHANGED zerrors
                  /\ IF r.dp = 0
                     THEN /\ datapaths' = r.datapaths
                          /\ UNCHANGED <<ztasks, ready, zpc, running, zlog>>
                     ELSE \E acts \in ActChoices(ev.type) :
                            LET st == zof_dispatch_event(ev.type, r.dp, ev, acts,
                                          [log |-> zlog, tasks |-> ztasks,
                                           ready |-> ready, datapaths |-> r.datapaths])
                                c == zof_cancel_tasks(st.tasks, st.ready, r.dp)
                            IN /\ zlog' = st.log
                               /\ ztasks' = c.tasks
                               /\ datapaths' = st.datapaths
                               /\ ready' = Append(c.ready, LoopTask)
                               /\ zpc' = "yield"
                               /\ running' = NoTask
    /\ UNCHANGED <<posted, zlife>>
    /\ UNCHANGED <<pvars, cvars, hvars, avars>>

\* one iteration of zof_event_loop on a CHANNEL_DOWN event
LoopChannelDown ==
    /\ running = LoopTask /\ zrun = "loop"
    /\ event_queue # <<>>
    /\ LET ev == queue_get(event_queue).event
           r == zof_channel_down(ev)
       IN /\ ev.type = "CHANNEL_DOWN"
          /\ event_queue' = queue_get(event_queue).rest
          /\ IF ~r.ok THEN Skip(1)
             ELSE /\ connections' = r.connections
                  /\ dpids' = r.dpids
                  /\ IF r.dp = 0
                     THEN /\ ztasks' = r.tasks
                          /\ ready' = r.ready
                          /\ datapaths' = r.datapaths
                          /\ UNCHANGED <<zpc, running, zlog, zerrors>>
                     ELSE DispatchAndYield(ev.type, r.dp, ev, r.tasks, r.ready,
                                           r.datapaths)
    /\ UNCHANGED <<posted, zlife>>
    /\ UNCHANGED <<pvars, cvars, hvars, avars>>

\* one iteration of zof_event_loop on any other event
LoopOther ==
    /\ running = LoopTask /\ zrun = "loop"
    /\ event_queue # <<>>
    /\ LET ev == queue_get(event_queue).event
           dp == zof_find_dp(ev)
       IN /\ ev.type \notin {"CHANNEL_UP", "CHANNEL_DOWN"}
          /\ event_queue' = queue_get(event_queue).rest
          /\ IF dp # 0 /\ datapaths[dp].closed
             THEN Skip(0)
             ELSE /\ DispatchAndYield(ev.type, dp, ev, ztasks, ready, datapaths)
                  /\ UNCHANGED <<connections, dpids>>
    /\ UNCHANGED <<posted, zlife>>
    /\ UNCHANGED <<pvars, cvars, hvars, avars>>

\* a task made by a handler runs one step: its first segment up to the first
\* suspension point, or the rest after it; a requested cancellation is thrown
\* into it instead
TaskStep ==
    /\ running \in 1..Len(ztasks)
    /\ LET i == running
           t == ztasks[i]
       IN IF t.must_cancel
          THEN /\ ztasks' = [ztasks EXCEPT ![i].pc = "cancelled"]
               /\ zlog' = IF t.pc = "new" THEN zlog
                          ELSE Append(zlog, LogEntry("task", "CANCEL", t.origin, 0, i, t.scope))
               /\ UNCHANGED ready
          ELSE IF t.pc = "new"
          THEN \E how \in {"yield", "wait", "done"} :
                    /\ zlog' = LET begun == Append(zlog,
                                        LogEntry("task", "BEGIN", t.origin, 0, i, t.scope))
                               IN IF how # "done" THEN begun
                                  ELSE Append(begun,
                                        LogEntry("task", "RETURN", t.origin, 0, i, t.scope))
                    /\ ztasks' = [ztasks EXCEPT ![i].pc = how]
                    /\ ready' = IF how = "yield" THEN Append(ready, i) ELSE ready
          ELSE /\ zlog' = Append(zlog, LogEntry("task", "NEXT", t.origin, 0, i, t.scope))
               /\ ztasks' = [ztasks EXCEPT ![i].pc = "done"]
               /\ UNCHANGED ready
    /\ running' = NoTask
    /\ UNCHANGED <<event_queue, posted, connections, dpids, datapaths, zpc, zerrors,
                   zlife>>
    /\ UNCHANGED <<pvars, cvars, hvars, avars>>

\* what a task blocked on a future or a timer was waiting for happens
TaskWake ==
    /\ running = NoTask
    /\ \E i \in 1..Len(ztasks) :
         /\ ztasks[i].pc = "wait"
         /\ ztasks' = [ztasks EXCEPT ![i].pc = "woken"]
         /\ ready' = Append(ready, i)
    /\ UNCHANGED <<event_queue, posted, connections, dpids, datapaths, running,
                   zpc, zlog, zerrors, zlife>>
    /\ UNCHANGED <<pvars, cvars, hvars, avars>>


\* ---------------------------------------------------------------- run
\* the on_start and on_stop methods of the apps: "none", "plain" (a function)
\* or "async" (a coroutine function that suspends once before it returns)
LifecycleHandlers == << [on_start |-> "async", on_stop |-> "plain"],
                        [on_start |-> "plain", on_stop |-> "async"] >>

\* where run() is suspended, and where it goes on when what it awaits is done
WaitStates == {"open_wait", "start_wait", "listen_wait", "cleanup_wait", "stop_wait"}
Resumed(w) ==
    CASE w = "open_wait" -> "starting"
      [] w = "start_wait" -> "start_next"
      [] w = "listen_wait" -> "listened"
      [] w = "cleanup_wait" -> "stopping"
      [] w = "stop_wait" -> "stop_next"

\* the run task is suspended on a future
RunBlocked == (zrun \in WaitStates /\ ~zcancel) \/ (zrun = "loop" /\ zpc = "get")

\* (mutant) zof_cleanup that gives the apps no CHANNEL_DOWN
RECURSIVE zof_cleanup_silent(_, _)
zof_cleanup_silent(st, dp) ==
    IF dp > Len(st.datapaths) THEN st
    ELSE IF connections[st.datapaths[dp].conn_id] # dp \/ st.datapaths[dp].closed
    THEN zof_cleanup_silent(st, dp + 1)
    ELSE LET c == zof_cancel_tasks(st.tasks, st.ready, dp)
         IN zof_cleanup_silent(
                [log |-> st.log,
                 tasks |-> c.tasks,
                 ready |-> c.ready,
                 datapaths |-> [st.datapaths EXCEPT ![dp].closed = TRUE]],
                dp + 1)

\* Controller.zof_cleanup, the loop over self._connections.values() from the
\* Datapath object dp on (the objects are numbered in the order they were made,
\* which is the order of the dict)
RECURSIVE zof_cleanup(_, _)
zof_cleanup(st, dp) ==
    IF dp > Len(st.datapaths) THEN st
    ELSE IF connections[st.datapaths[dp].conn_id] # dp \/ st.datapaths[dp].closed
    THEN zof_cleanup(st, dp + 1)
    ELSE LET c == zof_cancel_tasks(st.tasks, st.ready, dp)
         IN zof_cleanup(
                [log |-> SyntheticCalls(zof_find_handlers("CHANNEL_DOWN"), st.log, 0, dp),
                 tasks |-> c.tasks,
                 ready |-> c.ready,
                 datapaths |-> [st.datapaths EXCEPT ![dp].closed = TRUE]],
                dp + 1)

\* TaskList.cancel: every task of the controller is cancelled
tasks_cancel(tasks, rdy) == CancelAll(tasks, rdy, 1..Len(tasks))

\* Controller.zof_invoke_lifecycle: the on_start / on_stop of app a is called
Lifecycle(type, a) == Append(zlog, LogEntry("life", type, 0, a, 0, 0))

\* run() is entered: zof_run_context installs the signal handlers, and the
\* driver is opened (Driver.__aenter__ awaits the subprocess)
RunEnter ==
    /\ running = LoopTask /\ zrun = "new"
    /\ zrun' = "open_wait"
    /\ running' = NoTask
    /\ UNCHANGED <<event_queue, posted, connections, dpids, datapaths, ztasks,
                   ready, zpc, zlog, zerrors, zcancel, zquit, zapp, zpre, zexc>>
    /\ UNCHANGED <<pvars, cvars, hvars, avars>>

\* what run() awaits is done: the subprocess is started, the sleep of an async
\* on_start / on_stop is over, the listen requests are answered, or all tasks
\* have ended after zof_cleanup cancelled them
RunWake ==
    /\ running = NoTask
    /\ zrun \in WaitStates /\ ~zcancel
    /\ zrun = "cleanup_wait" => \A i \in 1..Len(ztasks) : ~TaskLive(ztasks[i])
    /\ zrun' = Resumed(zrun)
    /\ ready' = Append(ready, LoopTask)
    /\ UNCHANGED <<event_queue, posted, connections, dpids, datapaths, ztasks,
                   running, zpc, zlog, zerrors, zcancel, zquit, zapp, zpre, zexc>>
    /\ UNCHANGED <<pvars, cvars, hvars, avars>>

\* (mutant) zof_invoke_lifecycle that calls an async on_start without awaiting it
RunStartApp_unawaited ==
    /\ running = LoopTask /\ zrun = "starting"
    /\ zapp <= Len(LifecycleHandlers)
    /\ zlog' = IF LifecycleHandlers[zapp].on_start = "none" THEN zlog
               ELSE Lifecycle("START", zapp)
    /\ zapp' = zapp + 1
    /\ UNCHANGED <<event_queue, posted, connections, dpids, datapaths, ztasks,
                   ready, running, zpc, zerrors, zrun, zcancel, zquit, zpre, zexc>>
    /\ UNCHANGED <<pvars, cvars, hvars, avars>>

\* zof_invoke_lifecycle('START') comes to the next app
RunStartApp ==
    /\ running = LoopTask /\ zrun = "starting"
    /\ zapp <= Len(LifecycleHandlers)
    /\ LET kind == LifecycleHandlers[zapp].on_start
       IN /\ zlog' = IF kind = "none" THEN zlog ELSE Lifecycle("START", zapp)
          /\ IF kind = "async"
             THEN zrun' = "start_wait" /\ running' = NoTask /\ UNCHANGED zapp
             ELSE zapp' = zapp + 1 /\ UNCHANGED <<zrun, running>>
    /\ UNCHANGED <<event_queue, posted, connections, dpids, datapaths, ztasks,
                   ready, zpc, zerrors, zcancel, zquit, zpre, zexc>>
    /\ UNCHANGED <<pvars, cvars, hvars, avars>>

\* an async on_start goes on after its await and returns
RunStartResume ==
    /\ running = LoopTask /\ zrun = "start_next"
    /\ zlog' = Lifecycle("START_DONE", zapp)
    /\ zapp' = zapp + 1
    /\ zrun' = "starting"
    /\ UNCHANGED <<event_queue, posted, connections, dpids, datapaths, ztasks,
                   ready, running, zpc, zerrors, zcancel, zquit, zpre, zexc>>
    /\ UNCHANGED <<pvars, cvars, hvars, avars>>

\* all on_start handlers have returned: await self.zof_listen()
RunListen ==
    /\ running = LoopTask /\ zrun = "starting"
    /\ zapp > Len(LifecycleHandlers)
    /\ zrun' = "listen_wait"
    /\ zapp' = 1
    /\ running' = NoTask
    /\ UNCHANGED <<event_queue, posted, connections, dpids, datapaths, ztasks,
                   ready, zpc, zlog, zerrors, zcancel, zquit, zpre, zexc>>
    /\ UNCHANGED <<pvars, cvars, hvars, avars>>

\* zof_listen has returned: run() enters zof_event_loop
RunLoopEnter ==
    /\ running = LoopTask /\ zrun = "listened"
    /\ zrun' = "loop"
    /\ UNCHANGED <<event_queue, posted, connections, dpids, datapaths, ztasks,
                   ready, running, zpc, zlog, zerrors, zcancel, zquit, zapp, zpre, zexc>>
    /\ UNCHANGED <<pvars, cvars, hvars, avars>>

\* an exit signal: zof_quit cancels the run task; a suspended task is woken
Quit ==
    /\ running = NoTask
    /\ zrun \notin {"new", "done", "aborted"}
    /\ zquit < MaxQuits /\ posted + zquit < MaxEvents
    /\ zquit' = zquit + 1
    /\ zcancel' = TRUE
    /\ ready' = IF RunBlocked THEN Append(ready, LoopTask) ELSE ready
    /\ zpc' = IF zrun = "loop" /\ zpc = "get" THEN "woken" ELSE zpc
    /\ UNCHANGED <<event_queue, posted, connections, dpids, datapaths, ztasks,
                   running, zlog, zerrors, zrun, zapp, zpre, zexc>>
    /\ UNCHANGED <<pvars, cvars, hvars, avars>>

\* the cancelled run task is stepped: CancelledError is raised where it awaits.
\* zof_event_loop catches it and returns, and run() goes on with zof_cleanup up
\* to "await self._tasks.wait_cancelled(3.0)". Anywhere else it ends run()
\* (as an Exception that run() logs, or as a BaseException that leaves run()).
RunCancelled ==
    /\ running = NoTask
    /\ ready # <<>> /\ Head(ready) = LoopTask
    /\ zcancel
    /\ zcancel' = FALSE
    /\ IF zrun = "loop"
       THEN LET cleaned == zof_cleanup([log |-> zlog, tasks |-> ztasks,
                                        ready |-> Tail(ready),
                                        datapaths |-> datapaths], 1)
                c == tasks_cancel(cleaned.tasks, cleaned.ready)
            IN /\ zlog' = cleaned.log
               /\ datapaths' = cleaned.datapaths
               /\ ztasks' = c.tasks
               /\ ready' = c.ready
               /\ zrun' = "cleanup_wait"
               /\ zpc' = "run"
       ELSE /\ zrun' = "aborted"
            /\ ready' = Tail(ready)
            /\ UNCHANGED <<zlog, datapaths, ztasks, zpc>>
    /\ UNCHANGED <<event_queue, posted, connections, dpids, running, zerrors,
                   zquit, zapp, zpre, zexc>>
    /\ UNCHANGED <<pvars, cvars, hvars, avars>>

\* zof_invoke_lifecycle('STOP') comes to the next app
RunStopApp ==
    /\ running = LoopTask /\ zrun = "stopping"
    /\ zapp <= Len(LifecycleHandlers)
    /\ LET kind == LifecycleHandlers[zapp].on_stop
       IN /\ zlog' = IF kind = "none" THEN zlog ELSE Lifecycle("STOP", zapp)
          /\ IF kind = "async"
             THEN zrun' = "stop_wait" /\ running' = NoTask /\ UNCHANGED zapp
             ELSE zapp' = zapp + 1 /\ UNCHANGED <<zrun, running>>
    /\ UNCHANGED <<event_queue, posted, connections, dpids, datapaths, ztasks,
                   ready, zpc, zerrors, zcancel, zquit, zpre, zexc>>
    /\ UNCHANGED <<pvars, cvars, hvars, avars>>

\* an async on_stop goes on after its await and returns
RunStopResume ==
    /\ running = LoopTask /\ zrun = "stop_next"
    /\ zlog' = Lifecycle("STOP_DONE", zapp)
    /\ zapp' = zapp + 1
    /\ zrun' = "stopping"
    /\ UNCHANGED <<event_queue, posted, connections, dpids, datapaths, ztasks,
                   ready, running, zpc, zerrors, zcancel, zquit, zpre, zexc>>
    /\ UNCHANGED <<pvars, cvars, hvars, avars>>

\* all on_stop handlers have returned: run() returns
RunReturn ==
    /\ running = LoopTask /\ zrun = "stopping"
    /\ zapp > Len(LifecycleHandlers)
    /\ zrun' = "done"
    /\ running' = NoTask
    /\ UNCHANGED <<event_queue, posted, connections, dpids, datapaths, ztasks,
                   ready, zpc, zlog, zerrors, zcancel, zquit, zapp, zpre, zexc>>
    /\ UNCHANGED <<pvars, cvars, hvars, avars>>

\* ============================================================ pylibofp controller
\* ---------------------------------------------------------------- reply tracker
MaxReqs == 2
MaxFrames == 2
MaxTime == 11
MaxRequestTime == 0
MaxOps == 4

XID_TIMEOUT == 10
IDLE_INTERVAL == 1
MIN_XID == 8092
\* an xid is a 32-bit unsigned number, kept as its two 16-bit halves <<high, low>>
Half == 65536
Xid(n) == <<n \div Half, n % Half>>
\* _MAX_XID = 0xFFFFFFFF
MAX_XID == <<Half - 1, Half - 1>>
\* x + 1, for an xid below _MAX_XID
Increment(x) == IF x[2] = Half - 1 THEN <<x[1] + 1, 0>> ELSE <<x[1], x[2] + 1>>

NotArmed == 0 - 1

\* a message type is its name split at the dots: "REPLY.FLOW" is <<"REPLY", "FLOW">>
\* the frames the backend can send for a request: an RPC reply ('id' with
\* 'result' or 'error'), an OFP.MESSAGE, a CHANNEL_ALERT
Frame(kind, type, flags, x, n) ==
    [kind |-> kind, type |-> type, flags |-> flags, xid |-> x, n |-> n]

FrameShapes ==
    { [kind |-> "rpc_result", type |-> <<>>, flags |-> {}],
      [kind |-> "alert", type |-> <<"CHANNEL_ALERT">>, flags |-> {}],
      [kind |-> "message", type |-> <<"REPLY", "FLOW">>, flags |-> {"MORE"}],
      [kind |-> "message", type |-> <<"REPLY", "FLOW">>, flags |-> {}],
      [kind |-> "message", type |-> <<"BARRIER_REPLY">>, flags |-> {"MORE"}],
      [kind |-> "message", type |-> <<"ERROR">>, flags |-> {}] }

\* event.type.startswith('REPLY.')
StartsWithReply(type) == Len(type) >= 2 /\ type[1] = "REPLY"

\* _event_has_more: an RPC result has no type attribute (AttributeError: False)
event_has_more(ev) ==
    IF ev.kind # "message" THEN FALSE
    ELSE StartsWithReply(ev.type) /\ "MORE" \in ev.flags

\* what a handle is given: a result or an exception object
\* (at, the time of the call, and refused, whether the call raised, are noted
\* for the record in delivered)
Value(k, ev, t) ==
    [k |-> k, n |-> ev.n, more |-> event_has_more(ev), at |-> t, refused |-> FALSE]
TimeoutValue(t) ==
    [k |-> "timeout", n |-> 0, more |-> FALSE, at |-> t, refused |-> FALSE]
IsException(v) == v.k # "result"

\* the tables a delivery works on
Tables == [reqs |-> reqs, futs |-> futs, consumers |-> consumers,
           delivered |-> delivered]
Raised(tb) == [tb |-> tb, raised |-> TRUE]
Returned(tb) == [tb |-> tb, raised |-> FALSE]

\* the common body of _ReplyFuture.set_result and set_exception: queue the
\* value, or hand it to the awaiting task through the asyncio future; a
\* cancelled asyncio future refuses it with InvalidStateError
Deliver(tb, h, v) ==
    LET f == tb.futs[h]
        noted == [tb EXCEPT !.delivered[h] = Append(@, v)]
    IN CASE f.future = "none" ->
              Returned([noted EXCEPT !.futs[h].results = Append(@, v)])
         [] f.future = "pending" ->
              Returned([noted EXCEPT !.futs[h].future = "none",
                                     !.consumers[h].pc = "woken",
                                     !.consumers[h].inbox = v])
         [] f.future = "cancelled" ->
              Raised([tb EXCEPT !.delivered[h] = Append(@, [v EXCEPT !.refused = TRUE])])

\* (mutant) a result is queued in front of the results not yet read
set_result_front(tb, h, v) ==
    IF tb.futs[h].future = "none"
    THEN Returned([tb EXCEPT !.delivered[h] = Append(@, v),
                             !.futs[h].results = <<v>> \o @])
    ELSE Deliver(tb, h, v)

\* _ReplyFuture.set_result
set_result(tb, h, v) == Deliver(tb, h, v)

\* _ReplyFuture.set_exception
set_exception(tb, h, v) == Deliver(tb, h, v)

\* _ReplyFuture.set_done: "assert not self._done"
set_done(tb, h) ==
    IF tb.futs[h].done THEN Raised(tb)
    ELSE Returned([tb EXCEPT !.futs[h].done = TRUE])

\* (mutant) done() that does not look at the unread results
done_unread(f) == f.done

\* _ReplyFuture.done
done(f) == f.results = <<>> /\ f.done

ReqIndex(rq, x) ==
    IF \E i \in 1..Len(rq) : rq[i].xid = x
    THEN CHOOSE i \in 1..Len(rq) : rq[i].xid = x
    ELSE 0

RemoveAt(sq, i) == SubSeq(sq, 1, i - 1) \o SubSeq(sq, i + 1, Len(sq))

\* del self._reqs[xid]
del_req(tb, x) == [tb EXCEPT !.reqs = RemoveAt(@, ReqIndex(@, x))]

\* (mutant) the xid stays in the table after the last reply
handle_xid_keep(tb, ev, x, except_class) ==
    IF ReqIndex(tb.reqs, x) = 0
    THEN [tb |-> tb, raised |-> FALSE, found |-> FALSE]
    ELSE LET h == tb.reqs[ReqIndex(tb.reqs, x)].fut
             given == IF except_class # "none"
                      THEN set_exception(tb, h, Value(except_class, ev, now))
                      ELSE set_result(tb, h, Value("result", ev, now))
             closed == IF given.raised THEN given
                       ELSE IF ~event_has_more(ev) \/ except_class # "none"
                       THEN set_done(given.tb, h)
                       ELSE given
         IN [tb |-> closed.tb, raised |-> closed.raised, found |-> TRUE]

\* Controller._handle_xid: found is its return value
handle_xid(tb, ev, x, except_class) ==
    IF ReqIndex(tb.reqs, x) = 0
    THEN [tb |-> tb, raised |-> FALSE, found |-> FALSE]
    ELSE LET h == tb.reqs[ReqIndex(tb.reqs, x)].fut
             given == IF except_class # "none"
                      THEN set_exception(tb, h, Value(except_class, ev, now))
                      ELSE set_result(tb, h, Value("result", ev, now))
             closed == IF given.raised THEN given
                       ELSE IF ~event_has_more(ev) \/ except_class # "none"
                       THEN LET sd == set_done(given.tb, h)
                            IN IF sd.raised THEN sd
                               ELSE Returned(del_req(sd.tb, x))
                       ELSE given
         IN [tb |-> closed.tb, raised |-> closed.raised, found |-> TRUE]

\* Controller._handle_rpc_reply
handle_rpc_reply(tb, ev) ==
    handle_xid(tb, ev, ev.xid, IF ev.kind = "rpc_result" THEN "none" ELSE "error")

\* Controller._handle_message: to_apps says whether the apps get the message
handle_message(tb, ev) ==
    LET r == handle_xid(tb, ev, ev.xid,
                        IF ev.type = <<"ERROR">> THEN "error" ELSE "none")
    IN [tb |-> r.tb, raised |-> r.raised, to_apps |-> ~r.raised /\ ~r.found]

\* Controller._handle_alert
handle_alert(tb, ev) ==
    LET r == IF ev.xid # Xid(0) THEN handle_xid(tb, ev, ev.xid, "error")
             ELSE [tb |-> tb, raised |-> FALSE, found |-> FALSE]
    IN [tb |-> r.tb, raised |-> r.raised, to_apps |-> ~r.raised /\ ~r.found]

\* (mutant) an RPC reply with an unknown id goes to the apps, as a message does
dispatch_reply_unknown_to_apps(tb, ev) ==
    CASE ev.kind \in {"rpc_result", "rpc_error"} ->
            LET r == handle_rpc_reply(tb, ev)
            IN [tb |-> r.tb, raised |-> r.raised, to_apps |-> ~r.raised /\ ~r.found]
      [] ev.kind = "message" -> handle_message(tb, ev)
      [] ev.kind = "alert" -> handle_alert(tb, ev)

\* Controller._dispatch_event, for the frames of the reply tracker
dispatch_reply(tb, ev) ==
    CASE ev.kind \in {"rpc_result", "rpc_error"} ->
            LET r == handle_rpc_reply(tb, ev)
            IN [tb |-> r.tb, raised |-> r.raised, to_apps |-> FALSE]
      [] ev.kind = "message" -> handle_message(tb, ev)
      [] ev.kind = "alert" -> handle_alert(tb, ev)

\* the loop of Controller._idle over timed_out: the first set_exception that
\* raises ends it
RECURSIVE SweepTimedOut(_, _)
SweepTimedOut(tb, timed_out) ==
    IF timed_out = <<>> THEN Returned(tb)
    ELSE LET r == set_exception(tb, Head(timed_out).fut, TimeoutValue(now))
         IN IF r.raised THEN r
            ELSE SweepTimedOut(del_req(r.tb, Head(timed_out).xid), Tail(timed_out))

\* Controller._idle up to the re-arming of the timer
idle(tb) ==
    SweepTimedOut(tb, SelectSeq(tb.reqs, LAMBDA r : r.expiration <= now))

\* Controller._next_xid: the new value of _xid, which is also the xid returned
next_xid(x) == IF x = MAX_XID THEN Xid(MIN_XID) ELSE Increment(x)

\* Controller._write with an xid: register a new handle
write(tb, x) ==
    LET h == Len(tb.futs) + 1
        entry == [xid |-> x, fut |-> h, expiration |-> now + XID_TIMEOUT]
        i == ReqIndex(tb.reqs, x)
    IN [reqs |-> IF i = 0 THEN Append(tb.reqs, entry)
                 ELSE [tb.reqs EXCEPT ![i] = entry],
        futs |-> Append(tb.futs, [xid |-> x, results |-> <<>>, future |-> "none",
                                  done |-> FALSE, deadline |-> now + XID_TIMEOUT]),
        consumers |-> Append(tb.consumers,
                             [pc |-> "idle", op |-> "none", mode |-> "await",
                              inbox |-> TimeoutValue(0), got |-> <<>>]),
        delivered |-> Append(tb.delivered, <<>>)]

SetTables(tb) ==
    /\ reqs' = tb.reqs
    /\ futs' = tb.futs
    /\ consumers' = tb.consumers
    /\ delivered' = tb.delivered

\* what an await gave its caller
Got(op, k, v) == [op |-> op, k |-> k, n |-> v.n, more |-> v.more]

\* _ReplyFuture.__await__ (and _immediate_result), called by the consumer of
\* handle h through op: "await" or "anext"
await(tb, h, op) ==
    LET f == tb.futs[h]
    IN IF f.results # <<>>
       THEN [tb EXCEPT !.futs[h].results = Tail(@),
                       !.consumers[h].got = Append(@, Got(op, Head(f.results).k,
                                                          Head(f.results)))]
       ELSE IF f.done
       THEN [tb EXCEPT !.consumers[h].got =
                           Append(@, Got(op, "invalid_state", TimeoutValue(0)))]
       ELSE [tb EXCEPT !.futs[h].future = "pending",
                       !.consumers[h].pc = "suspended",
                       !.consumers[h].op = op]

\* _ReplyFuture.__anext__
anext(tb, h) ==
    IF done(tb.futs[h])
    THEN [tb EXCEPT !.consumers[h].got =
                        Append(@, Got("anext", "stop", TimeoutValue(0)))]
    ELSE await(tb, h, "anext")

\* asyncio runs what is ready before it looks at timers and input: a task whose
\* future was resolved, and the event loop task while its queue holds events
Quiet ==
    /\ \A h \in 1..Len(consumers) : consumers[h].pc # "woken"
    /\ pqueue = <<>> \/ evloop # "running"

\* the apps and the backend act in the first seconds after start or once the
\* first deadline has come; in between only the clock and the sweeper run
Active == now <= MaxRequestTime \/ now >= XID_TIMEOUT

\* the consumer iterates ("async for") until the iteration stops, then awaits
Iterating(c) == \A i \in 1..Len(c.got) : c.got[i].k # "stop"

\* ---------------------------------------------------------------- actions
\* an app sends a request (ControllerApp.request, rpc_call): _next_xid, _write
Request ==
    /\ Len(futs) < MaxReqs
    /\ now <= MaxRequestTime
    /\ Active
    /\ xid' = next_xid(xid)
    /\ \E mode \in {"await", "iterate"} :
         SetTables([write(Tables, next_xid(xid)) EXCEPT
                        !.consumers[Len(futs) + 1].mode = mode])
    /\ UNCHANGED <<pqueue, nframes, now, idle_due, swept_at, evloop, app_msgs>>
    /\ UNCHANGED <<zvars, cvars, avars>>

\* an app sends a request and passes an xid of its own, one that an earlier
\* request carried (ControllerApp.request: kwds.setdefault('xid', _next_xid())
\* calls _next_xid and keeps the caller's xid)
RequestOwnXid ==
    /\ Len(futs) < MaxReqs
    /\ now <= MaxRequestTime
    /\ Active
    /\ xid' = next_xid(xid)
    /\ \E h \in 1..Len(futs), mode \in {"await", "iterate"} :
         SetTables([write(Tables, futs[h].xid) EXCEPT
                        !.consumers[Len(futs) + 1].mode = mode])
    /\ UNCHANGED <<pqueue, nframes, now, idle_due, swept_at, evloop, app_msgs>>
    /\ UNCHANGED <<zvars, cvars, avars>>

\* _read_loop posts a frame of the backend that carries the xid of a request
PostFrame ==
    /\ Active
    /\ nframes < MaxFrames
    /\ \E sh \in FrameShapes, h \in 1..Len(futs) :
         pqueue' = Append(pqueue,
                          Frame(sh.kind, sh.type, sh.flags, futs[h].xid, nframes + 1))
    /\ nframes' = nframes + 1
    /\ UNCHANGED <<reqs, xid, futs, consumers, delivered, now, idle_due, swept_at,
                   evloop, app_msgs>>
    /\ UNCHANGED <<zvars, cvars, avars>>

\* one turn of _event_loop: take the oldest event and dispatch it; an exception
\* other than ExitException ends the task
EventLoop ==
    /\ evloop = "running"
    /\ pqueue # <<>>
    /\ pqueue' = Tail(pqueue)
    /\ LET r == dispatch_reply(Tables, Head(pqueue))
       IN /\ SetTables(r.tb)
          /\ evloop' = IF r.raised THEN "dead" ELSE "running"
          /\ app_msgs' = IF r.to_apps
                         THEN Append(app_msgs, [n |-> Head(pqueue).n,
                                                xid |-> Head(pqueue).xid])
                         ELSE app_msgs
    /\ UNCHANGED <<xid, nframes, now, idle_due, swept_at>>
    /\ UNCHANGED <<zvars, cvars, avars>>

\* the timer fires: _idle; an exception leaves the timer unarmed
Idle ==
    /\ Quiet
    /\ idle_due # NotArmed
    /\ now >= idle_due
    /\ LET r == idle(Tables)
       IN /\ SetTables(r.tb)
          /\ idle_due' = IF r.raised THEN NotArmed ELSE now + IDLE_INTERVAL
    /\ swept_at' = now
    /\ UNCHANGED <<xid, pqueue, nframes, now, evloop, app_msgs>>
    /\ UNCHANGED <<zvars, cvars, avars>>

\* a second passes; an armed timer fires when it is due
Tick ==
    /\ Quiet
    /\ now < MaxTime
    /\ idle_due # NotArmed => now < idle_due
    /\ now' = now + 1
    /\ UNCHANGED <<reqs, xid, futs, consumers, delivered, pqueue, nframes, idle_due,
                   swept_at, evloop, app_msgs>>
    /\ UNCHANGED <<zvars, cvars, avars>>

\* the consumer of a handle awaits it ("reply = await handle")
Await ==
    /\ Active
    /\ \E h \in 1..Len(futs) :
         /\ consumers[h].pc = "idle"
         /\ consumers[h].mode = "iterate" => ~Iterating(consumers[h])
         /\ Len(consumers[h].got) < MaxOps
         /\ SetTables(await(Tables, h, "await"))
    /\ UNCHANGED <<xid, pqueue, nframes, now, idle_due, swept_at, evloop, app_msgs>>
    /\ UNCHANGED <<zvars, cvars, avars>>

\* the consumer of a handle takes the next item of "async for"
Anext ==
    /\ Active
    /\ \E h \in 1..Len(futs) :
         /\ consumers[h].pc = "idle"
         /\ consumers[h].mode = "iterate" /\ Iterating(consumers[h])
         /\ Len(consumers[h].got) < MaxOps
         /\ SetTables(anext(Tables, h))
    /\ UNCHANGED <<xid, pqueue, nframes, now, idle_due, swept_at, evloop, app_msgs>>
    /\ UNCHANGED <<zvars, cvars, avars>>

\* a consumer whose asyncio future was resolved runs again
Resume ==
    /\ \E h \in 1..Len(futs) :
         /\ consumers[h].pc = "woken"
         /\ consumers' = [consumers EXCEPT
                ![h].pc = "idle",
                ![h].got = Append(@, Got(consumers[h].op, consumers[h].inbox.k,
                                         consumers[h].inbox))]
    /\ UNCHANGED <<reqs, xid, futs, delivered, pqueue, nframes, now, idle_due,
                   swept_at, evloop, app_msgs>>
    /\ UNCHANGED <<zvars, cvars, avars>>

\* the task suspended on a handle is cancelled (_handle_signal cancels the
\* interruptable task, _cancel_tasks cancels scoped tasks): its asyncio future
\* is cancelled with it
CancelAwaiter ==
    /\ Active
    /\ \E h \in 1..Len(futs) :
         /\ consumers[h].pc = "suspended"
         /\ consumers' = [consumers EXCEPT ![h].pc = "cancelled"]
         /\ futs' = [futs EXCEPT ![h].future = "cancelled"]
    /\ UNCHANGED <<reqs, xid, delivered, pqueue, nframes, now, idle_due, swept_at,
                   evloop, app_msgs>>
    /\ UNCHANGED <<zvars, cvars, avars>>

ReplyInit ==
    /\ reqs = <<>>
    /\ xid = Xid(MIN_XID)
    /\ futs = <<>>
    /\ consumers = <<>>
    /\ delivered = <<>>
    /\ pqueue = <<>>
    /\ nframes = 0
    /\ now = 0
    /\ idle_due = IDLE_INTERVAL
    /\ swept_at = 0
    /\ evloop = "running"
    /\ app_msgs = <<>>

ReplyNext ==
    \/ Request
    \/ PostFrame
    \/ EventLoop
    \/ Idle
    \/ Tick
    \/ Await
    \/ Anext
    \/ Resume
    \/ CancelAwaiter

\* ============================================================ pylibofp life cycle
MaxLines == 3
MaxAppTasks == 2
MaxSignals == 2
\* the backend's lines and signals of a behaviour of SpecCtlFair
FairInputs == 2

Phases == <<"INIT", "PRESTART", "START", "STOP", "POSTSTOP">>
\* None and the empty string, both false in a Python condition
None == ""
CtlDatapathIds == {"00:01"}
CtlConnIds == {"1"}

Internal(name) == [kind |-> "event", event |-> name]
\* the signals run_loop installs handlers for
SignalNames == {"SIGTERM", "SIGINT"}
\* the attempts of _shutdown_cleanly: for _ in range(3)
DrainAttempts == 3
\* _API_VERSION, and the major versions a backend's description can report
API_VERSION == 1
MajorVersions == {1, 2}
\* the rpc calls of _start: OFP.DESCRIPTION first, then OFP.LISTEN; the call
\* outstanding or just answered is the first one
StartRpcs == 2
DescriptionCall == start_rpcs = StartRpcs
RpcReply(ok, major) == [kind |-> "rpc", ok |-> ok, major_version |-> major]
ChannelMessage(type, datapath_id, conn_id) ==
    [kind |-> "msg", type |-> type, datapath_id |-> datapath_id, conn_id |-> conn_id]

\* what the connection can produce: a CHANNEL_UP or CHANNEL_DOWN of a
\* connection, with or without a datapath id
ChannelLines ==
    {ChannelMessage(t, d, c) : t \in {"CHANNEL_UP", "CHANNEL_DOWN"},
                               d \in CtlDatapathIds \cup {None}, c \in CtlConnIds}

\* what an app's handler does with what it receives: nothing, or it starts a
\* task with ensure_future(coroutine, datapath_id=..., conn_id=...)
NoAct == [datapath_id |-> None, conn_id |-> None, start |-> FALSE]
AppActs ==
    {NoAct} \cup {[datapath_id |-> d, conn_id |-> None, start |-> TRUE] :
                     d \in CtlDatapathIds \cup {None}}
            \cup {[datapath_id |-> None, conn_id |-> c, start |-> TRUE] :
                     c \in CtlConnIds}

\* the state the controller's methods work on
Ctl ==
    [phase |-> phase, phase_log |-> phase_log, tasks |-> atasks,
     queue |-> ctl_queue, open |-> queue_open, ready |-> cready,
     loop_pc |-> loop_pc, rpc |-> rpc, app_events |-> app_events,
     chan_msgs |-> chan_msgs, posted |-> events_posted, major |-> major_version,
     itask |-> itask, drains |-> drains]

SetCtl(st) ==
    /\ phase' = st.phase
    /\ phase_log' = st.phase_log
    /\ atasks' = st.tasks
    /\ ctl_queue' = st.queue
    /\ queue_open' = st.open
    /\ cready' = st.ready
    /\ loop_pc' = st.loop_pc
    /\ rpc' = st.rpc
    /\ app_events' = st.app_events
    /\ chan_msgs' = st.chan_msgs
    /\ events_posted' = st.posted
    /\ major_version' = st.major
    /\ itask' = st.itask
    /\ drains' = st.drains

Blocked(st, t) == \A i \in 1..Len(st.ready) : st.ready[i] # t
\* a future the task awaits is resolved: asyncio schedules the task's step
wake(st, t) == IF Blocked(st, t) THEN [st EXCEPT !.ready = Append(@, t)] ELSE st
\* the running task (the head of the ready queue) awaits and is suspended
suspend(st) == [st EXCEPT !.ready = Tail(@)]

\* Controller._post_event: Queue.put_nowait wakes _event_loop waiting in get()
Controller_post_event(st, ev) ==
    LET put == [st EXCEPT !.queue = Append(@, ev),
                          !.posted = IF ev.kind = "event" THEN Append(@, ev.event) ELSE @]
    IN IF st.loop_pc = "get" THEN wake(put, "evloop") ELSE put

\* 'Datapath %s' % dpid and 'Channel %s' % conn_id
DatapathKey(dpid) == <<"Datapath ", dpid>>
ChannelKey(conn_id) == <<"Channel ", conn_id>>
\* a phase, a datapath id or a connection id itself used as the key
PlainKey(x) == <<x>>

\* (mutant) _cancel_tasks without the case of START and STOP
cancel_tasks_one_scope(st, scope_key) ==
    LET Cancelled(t) ==
            IF t.st = "pending" /\ t.scope = scope_key
            THEN [t EXCEPT !.st = "cancelled"]
            ELSE t
    IN [st EXCEPT !.tasks = [i \in 1..Len(st.tasks) |-> Cancelled(st.tasks[i])]]

\* Controller._cancel_tasks
cancel_tasks(st, scope_key) ==
    LET all == scope_key = PlainKey("START") \/ scope_key = PlainKey("STOP")
        Cancelled(t) ==
            IF t.st = "pending" /\ (all \/ t.scope = scope_key)
            THEN [t EXCEPT !.st = "cancelled"]
            ELSE t
    IN [st EXCEPT !.tasks = [i \in 1..Len(st.tasks) |-> Cancelled(st.tasks[i])]]

\* (mutant) _set_phase that cancels the tasks of whatever phase it leaves
set_phase_cancel_always(st, ph) ==
    LET cancelled == cancel_tasks(st, PlainKey(st.phase))
        moved == [cancelled EXCEPT !.phase = ph, !.phase_log = Append(@, ph)]
    IN IF moved.open THEN Controller_post_event(moved, Internal(ph)) ELSE moved

\* Controller._set_phase
set_phase(st, ph) ==
    LET cancelled == IF st.phase # "PRESTART"
                     THEN cancel_tasks(st, PlainKey(st.phase))
                     ELSE st
        moved == [cancelled EXCEPT !.phase = ph, !.phase_log = Append(@, ph)]
    IN IF moved.open THEN Controller_post_event(moved, Internal(ph)) ELSE moved

\* Controller._ensure_future: scope_key <<>> stands for a false scope_key.
\* down notes that the CHANNEL_DOWN of the task's datapath or connection was
\* handled while the task was running.
ensure_future(st, scope_key, datapath_id, conn_id) ==
    LET key == IF scope_key = <<>> THEN PlainKey(st.phase) ELSE scope_key
    IN [st EXCEPT !.tasks = Append(@, [scope |-> key, st |-> "pending",
                                       datapath_id |-> datapath_id,
                                       conn_id |-> conn_id, down |-> FALSE])]

\* ControllerApp.ensure_future
app_ensure_future(st, datapath_id, conn_id) ==
    LET scope_key == IF datapath_id # None THEN PlainKey(datapath_id)
                     ELSE IF conn_id # None THEN PlainKey(conn_id)
                     ELSE <<>>
    IN ensure_future(st, scope_key, datapath_id, conn_id)

\* a handler of an app runs (ControllerApp.event, ControllerApp.message)
app_handler(st, act) ==
    IF act.start THEN app_ensure_future(st, act.datapath_id, act.conn_id) ELSE st

\* the task was started for the datapath, or without one for the connection,
\* that the channel message is about
StartedFor(t, params) ==
    IF t.datapath_id # None
    THEN t.datapath_id = params.datapath_id
    ELSE t.conn_id # None /\ params.datapath_id = None /\ t.conn_id = params.conn_id

\* Controller._handle_channel
handle_channel(st, params, act) ==
    LET scope_key == IF params.datapath_id # None
                     THEN DatapathKey(params.datapath_id)
                     ELSE ChannelKey(params.conn_id)
        Noted(t) == IF params.type = "CHANNEL_DOWN" /\ t.st = "pending"
                       /\ StartedFor(t, params)
                    THEN [t EXCEPT !.down = TRUE]
                    ELSE t
        noted == [st EXCEPT !.tasks = [i \in 1..Len(st.tasks) |-> Noted(st.tasks[i])]]
        cancelled == IF params.type = "CHANNEL_DOWN"
                     THEN cancel_tasks(noted, scope_key)
                     ELSE noted
    IN app_handler([cancelled EXCEPT !.chan_msgs = Append(@, params.type)], act)

\* (mutant) EXIT is passed to the apps like any other internal event
handle_internal_event_exit_to_apps(st, ev, act) ==
    [st |-> app_handler([st EXCEPT !.app_events = Append(@, ev.event)], act),
     exit |-> FALSE]

\* Controller._handle_internal_event: for EXIT it raises ExitException
handle_internal_event(st, ev, act) ==
    IF ev.event = "EXIT"
    THEN [st |-> st, exit |-> TRUE]
    ELSE [st |-> app_handler([st EXCEPT !.app_events = Append(@, ev.event)], act),
          exit |-> FALSE]

\* Controller._handle_rpc_reply for the rpc call of _start: the result or the
\* error is set on its future, which wakes _start
start_rpc_reply(st, ev) ==
    IF st.rpc = "sent"
    THEN wake([st EXCEPT !.rpc = IF ev.ok THEN "result" ELSE "error",
                         !.major = IF ev.ok THEN ev.major_version ELSE @], "start")
    ELSE st

\* Controller._dispatch_event
dispatch_event(st, ev, act) ==
    CASE ev.kind = "event" -> handle_internal_event(st, ev, act)
      [] ev.kind = "rpc" -> [st |-> start_rpc_reply(st, ev), exit |-> FALSE]
      [] ev.kind = "msg" -> [st |-> handle_channel(st, ev, act), exit |-> FALSE]

ActsAllowed == IF Len(atasks) < MaxAppTasks THEN AppActs ELSE {NoAct}
Turn(t) == aio # "closed" /\ cready # <<>> /\ Head(cready) = t
\* readline() returns without suspending when a line or the end is buffered
InputReady == inbuf # <<>> \/ eof

\* ---------------------------------------------------------------- actions
\* _run up to "await self._conn.connect()"
RunBegin ==
    /\ Turn("run") /\ run_pc = "begin"
    /\ idle_task' = "armed"
    /\ run_pc' = "connect"
    /\ SetCtl(suspend([Ctl EXCEPT !.open = TRUE]))
    /\ UNCHANGED <<start_pc, start_rpcs, inbuf, eof, conn_closed, aio,
                   lines_sent, signals, last_signal, cancel_key>>
    /\ UNCHANGED <<zvars, pvars, avars>>

\* the connection is made, or was shut down: the task that awaits is woken
ConnectionDone ==
    /\ aio # "closed"
    /\ run_pc \in {"connect", "disconnect"}
    /\ Blocked(Ctl, "run")
    /\ SetCtl(wake(Ctl, "run"))
    /\ UNCHANGED <<run_pc, start_pc, start_rpcs, inbuf, eof, conn_closed, aio,
                   idle_task, lines_sent, signals, last_signal, cancel_key>>
    /\ UNCHANGED <<zvars, pvars, avars>>

\* _run from connect() to the first readline() of _read_loop
RunPrestart ==
    /\ Turn("run") /\ run_pc = "connect"
    /\ LET moved == set_phase(Ctl, "PRESTART")
           started == [moved EXCEPT !.ready = @ \o <<"start", "evloop">>]
       IN SetCtl(IF InputReady THEN started ELSE suspend(started))
    /\ run_pc' = "read"
    /\ UNCHANGED <<start_pc, start_rpcs, inbuf, eof, conn_closed, aio,
                   idle_task, lines_sent, signals, last_signal, cancel_key>>
    /\ UNCHANGED <<zvars, pvars, avars>>

\* _read_loop reads a line and posts it
RunRead ==
    /\ Turn("run") /\ run_pc = "read"
    /\ inbuf # <<>>
    /\ inbuf' = Tail(inbuf)
    /\ LET posted_ev == Controller_post_event(Ctl, Head(inbuf))
       IN SetCtl(IF Tail(inbuf) # <<>> \/ eof THEN posted_ev ELSE suspend(posted_ev))
    /\ UNCHANGED <<run_pc, start_pc, start_rpcs, eof, conn_closed, aio,
                   idle_task, lines_sent, signals, last_signal, cancel_key>>
    /\ UNCHANGED <<zvars, pvars, avars>>

\* _read_loop reads the end of input and posts EXIT; _run sets the phase STOP
\* and awaits disconnect()
RunEof ==
    /\ Turn("run") /\ run_pc = "read"
    /\ inbuf = <<>> /\ eof
    /\ SetCtl(suspend(set_phase(Controller_post_event(Ctl, Internal("EXIT")), "STOP")))
    /\ run_pc' = "disconnect"
    /\ UNCHANGED <<start_pc, start_rpcs, inbuf, eof, conn_closed, aio,
                   idle_task, lines_sent, signals, last_signal, cancel_key>>
    /\ UNCHANGED <<zvars, pvars, avars>>

\* _run after disconnect()
RunEnd ==
    /\ Turn("run") /\ run_pc = "disconnect"
    /\ idle_task' = "cancelled"
    /\ run_pc' = "done"
    /\ SetCtl(suspend([Ctl EXCEPT !.open = FALSE]))
    /\ UNCHANGED <<start_pc, start_rpcs, inbuf, eof, conn_closed, aio,
                   lines_sent, signals, last_signal, cancel_key>>
    /\ UNCHANGED <<zvars, pvars, avars>>

\* the connection produces a line: the reply to the rpc call of _start, or a
\* channel message
BackendLine ==
    /\ aio # "closed" /\ run_pc = "read"
    /\ ~eof /\ lines_sent + signals < MaxLines
    /\ \E line \in ChannelLines \cup
                     {RpcReply(ok, v) : ok \in BOOLEAN, v \in MajorVersions} :
          /\ line.kind = "rpc" =>
                /\ rpc = "sent"
                /\ line.major_version # API_VERSION => (line.ok /\ DescriptionCall)
          /\ inbuf' = Append(inbuf, line)
    /\ lines_sent' = lines_sent + 1
    /\ SetCtl(wake(Ctl, "run"))
    /\ UNCHANGED <<run_pc, start_pc, start_rpcs, eof, conn_closed, aio,
                   idle_task, signals, last_signal, cancel_key>>
    /\ UNCHANGED <<zvars, pvars, avars>>

\* the connection's output ends
BackendEof ==
    /\ aio # "closed" /\ run_pc = "read"
    /\ ~eof
    /\ eof' = TRUE
    /\ SetCtl(wake(Ctl, "run"))
    /\ UNCHANGED <<run_pc, start_pc, start_rpcs, inbuf, conn_closed, aio,
                   idle_task, lines_sent, signals, last_signal, cancel_key>>
    /\ UNCHANGED <<zvars, pvars, avars>>

\* _start up to the await in _get_description
StartBegin ==
    /\ Turn("start") /\ start_pc = "begin"
    /\ start_pc' = "rpc"
    /\ SetCtl(suspend([Ctl EXCEPT !.rpc = "sent"]))
    /\ UNCHANGED <<run_pc, start_rpcs, inbuf, eof, conn_closed, aio, idle_task,
                   lines_sent, signals, last_signal, cancel_key>>
    /\ UNCHANGED <<zvars, pvars, avars>>

\* _get_description finds result.major_version > _API_VERSION and raises
\* ValueError, which no except clause of _get_description or _start matches:
\* the _start task ends with the exception
StartUnsupported ==
    /\ Turn("start") /\ start_pc = "rpc"
    /\ rpc = "result" /\ DescriptionCall
    /\ major_version > API_VERSION
    /\ start_pc' = "raised"
    /\ SetCtl(suspend(Ctl))
    /\ UNCHANGED <<run_pc, start_rpcs, inbuf, eof, conn_closed, aio, idle_task,
                   lines_sent, signals, last_signal, cancel_key>>
    /\ UNCHANGED <<zvars, pvars, avars>>

\* _start makes its next rpc call (_configure_tls, _listen_on_endpoints)
StartNextRpc ==
    /\ Turn("start") /\ start_pc = "rpc"
    /\ rpc = "result" /\ start_rpcs > 1
    /\ DescriptionCall => major_version <= API_VERSION
    /\ start_rpcs' = start_rpcs - 1
    /\ SetCtl(suspend([Ctl EXCEPT !.rpc = "sent"]))
    /\ UNCHANGED <<run_pc, start_pc, inbuf, eof, conn_closed, aio, idle_task,
                   lines_sent, signals, last_signal, cancel_key>>
    /\ UNCHANGED <<zvars, pvars, avars>>

\* _start has made its rpc calls: self._set_phase('START')
StartDone ==
    /\ Turn("start") /\ start_pc = "rpc"
    /\ rpc = "result" /\ start_rpcs = 1
    /\ start_pc' = "done"
    /\ SetCtl(suspend(set_phase(Ctl, "START")))
    /\ UNCHANGED <<run_pc, start_rpcs, inbuf, eof, conn_closed, aio, idle_task,
                   lines_sent, signals, last_signal, cancel_key>>
    /\ UNCHANGED <<zvars, pvars, avars>>

\* an rpc call of _start raised: except ControllerException
StartFail ==
    /\ Turn("start") /\ start_pc = "rpc"
    /\ rpc = "error"
    /\ start_pc' = "done"
    /\ SetCtl(suspend(IF queue_open
                      THEN Controller_post_event(
                               Controller_post_event(Ctl, Internal("STARTFAIL")),
                               Internal("EXIT"))
                      ELSE Ctl))
    /\ UNCHANGED <<run_pc, start_rpcs, inbuf, eof, conn_closed, aio, idle_task,
                   lines_sent, signals, last_signal, cancel_key>>
    /\ UNCHANGED <<zvars, pvars, avars>>

\* _event_loop finds its queue empty: get() suspends it
EvLoopWait ==
    /\ Turn("evloop") /\ loop_pc \in {"begin", "get"}
    /\ ctl_queue = <<>>
    /\ SetCtl(suspend([Ctl EXCEPT !.loop_pc = "get"]))
    /\ UNCHANGED <<run_pc, start_pc, start_rpcs, inbuf, eof, conn_closed, aio,
                   idle_task, lines_sent, signals, last_signal, cancel_key>>
    /\ UNCHANGED <<zvars, pvars, avars>>

\* _event_loop gets an event and dispatches it; it goes on to the next get()
\* without suspending
EvLoopDispatch ==
    /\ Turn("evloop") /\ loop_pc \in {"begin", "get"}
    /\ ctl_queue # <<>>
    /\ \E act \in ActsAllowed :
          LET got == [Ctl EXCEPT !.queue = Tail(@), !.loop_pc = "run"]
              r == dispatch_event(got, Head(ctl_queue), act)
          IN /\ ~r.exit
             /\ SetCtl([r.st EXCEPT !.loop_pc = "get"])
    /\ UNCHANGED <<run_pc, start_pc, start_rpcs, inbuf, eof, conn_closed, aio,
                   idle_task, lines_sent, signals, last_signal, cancel_key>>
    /\ UNCHANGED <<zvars, pvars, avars>>

\* _event_loop gets EXIT: except ExitException closes the connection and stops
\* the asyncio loop; run_loop goes on to _shutdown_cleanly, which runs the
\* pending tasks
EvLoopExit ==
    /\ Turn("evloop") /\ loop_pc \in {"begin", "get"}
    /\ ctl_queue # <<>>
    /\ LET got == [Ctl EXCEPT !.queue = Tail(@)]
           r == dispatch_event(got, Head(ctl_queue), NoAct)
       IN /\ r.exit
          /\ SetCtl(suspend([r.st EXCEPT !.loop_pc = "done"]))
    /\ conn_closed' = TRUE
    /\ aio' = "drain"
    /\ UNCHANGED <<run_pc, start_pc, start_rpcs, inbuf, eof, idle_task,
                   lines_sent, signals, last_signal, cancel_key>>
    /\ UNCHANGED <<zvars, pvars, avars>>

\* Task.cancel() on the interruptable task: a finished task ignores it
cancel_interruptable(t) == IF t = "pending" THEN "cancelled" ELSE t

\* (mutant) SIGINT posts EXIT even when an interruptable task is registered
handle_signal_always_exit(st, signame) ==
    IF st.open THEN Controller_post_event(st, Internal("EXIT")) ELSE st

\* _handle_signal: SIGINT with an interruptable task registered cancels that
\* task, anything else posts EXIT (which raises AttributeError, and posts
\* nothing, once _run has set _event_queue to None)
handle_signal(st, signame) ==
    IF signame = "SIGINT" /\ st.itask # "none"
    THEN [st EXCEPT !.itask = cancel_interruptable(@)]
    ELSE IF st.open THEN Controller_post_event(st, Internal("EXIT")) ELSE st

\* the asyncio loop runs the handler of a signal
Signal ==
    /\ aio # "closed" /\ run_pc # "begin"
    /\ signals < MaxSignals /\ lines_sent + signals < MaxLines
    /\ signals' = signals + 1
    /\ \E signame \in SignalNames :
          /\ last_signal' = signame
          /\ SetCtl(handle_signal(Ctl, signame))
    /\ UNCHANGED <<run_pc, start_pc, start_rpcs, inbuf, eof, conn_closed, aio,
                   idle_task, lines_sent, cancel_key>>
    /\ UNCHANGED <<zvars, pvars, avars>>

\* an app calls Controller.set_interruptable_task(task) with a task it started;
\* it does so when the controller has entered PRESTART, before _start's first step
SetInterruptable ==
    /\ aio = "forever" /\ phase = "PRESTART" /\ start_pc = "begin"
    /\ itask = "none"
    /\ SetCtl([Ctl EXCEPT !.itask = "pending"])
    /\ UNCHANGED <<run_pc, start_pc, start_rpcs, inbuf, eof, conn_closed, aio,
                   idle_task, lines_sent, signals, last_signal, cancel_key>>
    /\ UNCHANGED <<zvars, pvars, avars>>

\* a task of an app comes to its end
AppTaskDone ==
    /\ aio # "closed"
    /\ \E i \in 1..Len(atasks) :
          /\ atasks[i].st = "pending"
          /\ atasks' = [atasks EXCEPT ![i].st = "done"]
    /\ UNCHANGED <<phase, phase_log, ctl_queue, queue_open, cready, run_pc,
                   start_pc, start_rpcs, rpc, loop_pc, inbuf, eof, conn_closed,
                   aio, idle_task, app_events, chan_msgs, lines_sent, signals,
                   events_posted, major_version, itask, drains, last_signal, cancel_key>>
    /\ UNCHANGED <<zvars, pvars, avars>>

\* what a call of _run_pending can come to: False (the pending tasks completed
\* or the timeout passed), True (the loop was stopped during the wait) or an
\* exception
PendingResults == {"complete", "stopped", "raised"}

\* (mutant) _shutdown_cleanly that goes on to the next attempt after an attempt
\* has reported that nothing was started
shutdown_goes_on(n, result) == n < DrainAttempts /\ result # "raised"

\* _shutdown_cleanly: after the n-th call of _run_pending came to result, the
\* for loop makes another call
shutdown_goes_on_after(n, result) == n < DrainAttempts /\ result = "stopped"

\* _shutdown_cleanly: one call of _run_pending, when no task can step any more
\* (all are done or blocked, or the 5 s pass); after the last call, finally
\* self._set_phase('POSTSTOP'), and run_loop closes the loop
ShutdownDone ==
    /\ aio = "drain"
    /\ cready = <<>>
    /\ \E result \in PendingResults :
          LET called == [Ctl EXCEPT !.drains = Append(@, result)]
          IN IF shutdown_goes_on_after(Len(called.drains), result)
             THEN SetCtl(called) /\ UNCHANGED aio
             ELSE SetCtl(set_phase(called, "POSTSTOP")) /\ aio' = "closed"
    /\ UNCHANGED <<run_pc, start_pc, start_rpcs, inbuf, eof, conn_closed,
                   idle_task, lines_sent, signals, last_signal, cancel_key>>
    /\ UNCHANGED <<zvars, pvars, avars>>

\* the scope keys of tasks: a phase, a datapath id, a connection id, and the
\* keys _handle_channel makes
ScopeKeys ==
    {PlainKey(p) : p \in {"PRESTART", "START", "STOP"}}
        \cup {PlainKey(d) : d \in CtlDatapathIds}
        \cup {DatapathKey(d) : d \in CtlDatapathIds}
        \cup {ChannelKey(c) : c \in CtlConnIds}

\* a call of _ensure_future with a scope key, or with none
EnsureFutureCall ==
    /\ aio # "closed"
    /\ Len(atasks) < MaxAppTasks
    /\ \E scope_key \in ScopeKeys \cup {<<>>} :
          SetCtl(ensure_future(Ctl, scope_key, None, None))
    /\ UNCHANGED <<run_pc, start_pc, start_rpcs, inbuf, eof, conn_closed, aio,
                   idle_task, lines_sent, signals, last_signal, cancel_key>>
    /\ UNCHANGED <<zvars, pvars, avars>>

\* a call of _cancel_tasks
CancelTasksCall ==
    /\ aio # "closed"
    /\ \E scope_key \in ScopeKeys :
          /\ cancel_key' = scope_key
          /\ SetCtl(cancel_tasks(Ctl, scope_key))
    /\ UNCHANGED <<run_pc, start_pc, start_rpcs, inbuf, eof, conn_closed, aio,
                   idle_task, lines_sent, signals, last_signal>>
    /\ UNCHANGED <<zvars, pvars, avars>>

TasksNext ==
    \/ EnsureFutureCall
    \/ CancelTasksCall
    \/ AppTaskDone

\* the controller as __init__ leaves it and run_loop finds it, with `sent' of
\* the backend's lines counted as already spent
CtlInitAfter(sent) ==
    /\ phase = "INIT"
    /\ phase_log = <<"INIT">>
    /\ atasks = <<>>
    /\ ctl_queue = <<>>
    /\ queue_open = FALSE
    /\ cready = <<"run">>
    /\ run_pc = "begin"
    /\ start_pc = "begin"
    /\ start_rpcs = StartRpcs
    /\ rpc = "none"
    /\ loop_pc = "begin"
    /\ inbuf = <<>>
    /\ eof = FALSE
    /\ conn_closed = FALSE
    /\ aio = "forever"
    /\ idle_task = "none"
    /\ app_events = <<>>
    /\ chan_msgs = <<>>
    /\ lines_sent = sent
    /\ signals = 0
    /\ events_posted = <<>>
    /\ major_version = 0
    /\ itask = "none"
    /\ drains = <<>>
    /\ last_signal = ""
    /\ cancel_key = <<>>

CtlInit == CtlInitAfter(0)

CtlNext ==
    \/ StartUnsupported
    \/ SetInterruptable
    \/ RunBegin
    \/ ConnectionDone
    \/ RunPrestart
    \/ RunRead
    \/ RunEof
    \/ RunEnd
    \/ BackendLine
    \/ BackendEof
    \/ StartBegin
    \/ StartNextRpc
    \/ StartDone
    \/ StartFail
    \/ EvLoopWait
    \/ EvLoopDispatch
    \/ EvLoopExit
    \/ Signal
    \/ AppTaskDone
    \/ ShutdownDone

\* ============================================================ pylibofp apps
MaxApps == 2
\* the handlers subscribed by the apps together
MaxHandlers == 2

AppNames == {"app1", "app2"}
\* self.precedence = 100
DefaultPrecedence == 100
\* the precedences that apps are created with
Precedences == {12, DefaultPrecedence, 5001}
\* callbacks; the last one fails the handler's verify()
Callbacks == {"f", "g", "bad"}
HandlerTypes == {"message", "event"}
Subtypes == {"PACKET_IN", "PORT_STATUS"}
\* what a callback does when it is called: it returns, raises
\* FallThroughException or raises another exception
Results == {"return", "fallthrough", "raise"}

NoEvent == [type |-> "", subtype |-> ""]
\* arg is the name or the callback that the call was made with
Op(op, app, arg, raised, event, calls) ==
    [op |-> op, app |-> app, arg |-> arg, raised |-> raised,
     event |-> event, calls |-> calls]

\* ControllerApp.__init__: next_app_id, precedence 100, no handlers, and
\* parent.apps.append(self)
ControllerApp_init(list, name) ==
    Append(list, [id |-> Len(list) + 1, name |-> name,
                  precedence |-> DefaultPrecedence])

\* the list with the app put behind the apps whose precedence is not higher
\* (the list is kept sorted; a sort of the list is stable)
InsertByPrecedence(list, app) ==
    LET k == Cardinality({i \in 1..Len(list) : list[i].precedence <= app.precedence})
    IN SubSeq(list, 1, k) \o <<app>> \o SubSeq(list, k + 1, Len(list))

\* (mutant) the new app stays at the end of the list
ofp_app_appended(list, name, precedence) ==
    IF \E i \in 1..Len(list) : list[i].name = name
    THEN [apps |-> list, raised |-> "ValueError"]
    ELSE [apps |-> [ControllerApp_init(list, name)
                        EXCEPT ![Len(list) + 1].precedence = precedence],
          raised |-> ""]

\* (mutant) the name is not looked up
ofp_app_any_name(list, name, precedence) ==
    LET made == ControllerApp_init(list, name)
    IN [apps |-> InsertByPrecedence(list, [made[Len(made)]
                                              EXCEPT !.precedence = precedence]),
        raised |-> ""]

\* ofp_app(name, precedence=...): a name already in use raises ValueError;
\* otherwise the ControllerApp is made with the precedence asked for and the
\* controller's list is in the order of precedence
ofp_app(list, name, precedence) ==
    IF \E i \in 1..Len(list) : list[i].name = name
    THEN [apps |-> list, raised |-> "ValueError"]
    ELSE LET made == ControllerApp_init(list, name)
         IN [apps |-> InsertByPrecedence(list, [made[Len(made)]
                                                   EXCEPT !.precedence = precedence]),
             raised |-> ""]

\* AppFacade.all_apps(): the controller's list
all_apps(a) == controller_apps

\* make_handler(callback, type_, subtype, options)
make_handler(callback, type_, subtype, options) ==
    [callback |-> callback, type |-> type_, subtype |-> subtype]
\* BaseHandler.verify: the callback can be called as a handler
verify(handler) == handler.callback # "bad"
\* BaseHandler.match: the handler was subscribed for the event's subtype
match(handler, event) == handler.subtype = event.subtype

\* ControllerApp.subscribe(callback, type_, subtype, options) called with the
\* positional arguments args: a call with fewer arguments raises TypeError
\* before the body runs
subscribe(hs, args) ==
    IF Len(args) # 4 THEN [handlers |-> hs, raised |-> "TypeError"]
    ELSE LET handler == make_handler(args[1], args[2], args[3], args[4])
         IN IF ~verify(handler) THEN [handlers |-> hs, raised |-> ""]
            ELSE [handlers |-> [hs EXCEPT ![handler.type] = Append(@, handler)],
                  raised |-> ""]

\* the number of handlers subscribed by the first n apps
RECURSIVE Subscribed(_, _)
Subscribed(hs, n) ==
    IF n = 0 THEN 0
    ELSE Len(hs[n]["message"]) + Len(hs[n]["event"]) + Subscribed(hs, n - 1)

\* the position of the first handler of the list with the callback, 0 if none
FirstWith(list, callback) ==
    IF \E i \in 1..Len(list) : list[i].callback = callback
    THEN CHOOSE i \in 1..Len(list) :
            /\ list[i].callback = callback
            /\ \A j \in 1..(i - 1) : list[j].callback # callback
    ELSE 0

\* ControllerApp.unsubscribe(callback): keys is the order in which the dict
\* gives its keys; the first handler found with the callback is removed
RECURSIVE unsubscribe(_, _, _)
unsubscribe(hs, callback, keys) ==
    IF keys = <<>> THEN hs
    ELSE LET i == FirstWith(hs[Head(keys)], callback)
         IN IF i # 0
            THEN [hs EXCEPT ![Head(keys)] = SubSeq(@, 1, i - 1) \o SubSeq(@, i + 1, Len(@))]
            ELSE unsubscribe(hs, callback, Tail(keys))

\* AppFacade.__init__: self.subscribe = app.subscribe
facade_subscribe(hs, args) == subscribe(hs, args)
\* AppFacade.__init__: self.unsubscribe = app.subscribe
facade_unsubscribe(hs, args) == subscribe(hs, args)

\* (mutant) _handle without the break: every matching handler is called
RECURSIVE handle_all(_, _, _, _)
handle_all(list, event, results, pos) ==
    IF list = <<>> THEN <<>>
    ELSE IF ~match(Head(list), event)
    THEN handle_all(Tail(list), event, Tail(results), pos + 1)
    ELSE LET call == [pos |-> pos, callback |-> Head(list).callback,
                      result |-> Head(results)]
         IN IF Head(results) # "raise"
            THEN <<call>> \o handle_all(Tail(list), event, Tail(results), pos + 1)
            ELSE <<call>>

\* ControllerApp._handle on the list of one handler type: the calls it makes, in
\* order. results[i] is what the i-th handler of the list does if it is called;
\* after a return the loop breaks, FallThroughException goes on to the next
\* handler, any other exception is logged by the outer except and ends the loop.
RECURSIVE handle(_, _, _, _)
handle(list, event, results, pos) ==
    IF list = <<>> THEN <<>>
    ELSE IF ~match(Head(list), event)
    THEN handle(Tail(list), event, Tail(results), pos + 1)
    ELSE LET call == [pos |-> pos, callback |-> Head(list).callback,
                      result |-> Head(results)]
         IN IF Head(results) = "fallthrough"
            THEN <<call>> \o handle(Tail(list), event, Tail(results), pos + 1)
            ELSE <<call>>

\* Controller._handle_internal_event, _handle_message: "for app in self.apps:
\* app.event(event)"; the calls of every app, in the order of the list.
\* results[k] is what the k-th handler subscribed (counting app by app) does.
RECURSIVE ToApps(_, _, _)
ToApps(list, event, results) ==
    IF list = <<>> THEN <<>>
    ELSE LET a == Head(list).id
             own == app_handlers[a][event.type]
             first == Subscribed(app_handlers, a - 1)
             calls == handle(own, event,
                             [i \in 1..Len(own) |-> results[first + i]], 1)
         IN [i \in 1..Len(calls) |->
                [app |-> a, pos |-> calls[i].pos, callback |-> calls[i].callback,
                 result |-> calls[i].result]]
            \o ToApps(Tail(list), event, results)

\* Controller.__init__: self.apps = [], self._tasks = defaultdict(list)
AppsInit ==
    /\ controller_apps = <<>>
    /\ app_handlers = <<>>
    /\ last_op = Op("none", 0, "", "", NoEvent, <<>>)
    /\ tasks_registry = <<>>
    /\ wrapped = <<>>

\* ---------------------------------------------------------------- actions
\* ofp_app(name, precedence=...) is called
CreateApp ==
    /\ Len(controller_apps) < MaxApps
    /\ \E name \in AppNames, precedence \in Precedences :
          LET r == ofp_app(controller_apps, name, precedence)
          IN /\ controller_apps' = r.apps
             /\ app_handlers' = IF r.raised = ""
                                THEN Append(app_handlers, [t \in HandlerTypes |-> <<>>])
                                ELSE app_handlers
             /\ last_op' = Op("create", Len(controller_apps) + 1, name, r.raised,
                              NoEvent, <<>>)
    /\ UNCHANGED <<tasks_registry, wrapped>>
    /\ UNCHANGED <<zvars, pvars, cvars>>

\* an app subscribes a callback through its facade (subscribe, or the message
\* and event decorators)
FacadeSubscribe ==
    /\ \E a \in 1..Len(app_handlers), callback \in Callbacks,
          type \in HandlerTypes, subtype \in Subtypes :
          LET r == facade_subscribe(app_handlers[a], <<callback, type, subtype, "">>)
          IN /\ Subscribed(app_handlers, Len(app_handlers)) < MaxHandlers
             /\ app_handlers' = [app_handlers EXCEPT ![a] = r.handlers]
             /\ last_op' = Op("subscribe", a, callback, r.raised, NoEvent, <<>>)
    /\ UNCHANGED <<controller_apps, tasks_registry, wrapped>>
    /\ UNCHANGED <<zvars, pvars, cvars>>

\* an app calls unsubscribe(callback) through its facade
FacadeUnsubscribe ==
    /\ \E a \in 1..Len(app_handlers), callback \in Callbacks :
          LET r == facade_unsubscribe(app_handlers[a], <<callback>>)
          IN /\ app_handlers' = [app_handlers EXCEPT ![a] = r.handlers]
             /\ last_op' = Op("facade_unsubscribe", a, callback, r.raised, NoEvent, <<>>)
    /\ UNCHANGED <<controller_apps, tasks_registry, wrapped>>
    /\ UNCHANGED <<zvars, pvars, cvars>>

\* ControllerApp.unsubscribe is called on the app object itself
AppUnsubscribe ==
    /\ \E a \in 1..Len(app_handlers), callback \in Callbacks,
          keys \in {<<"message", "event">>, <<"event", "message">>} :
          /\ app_handlers' = [app_handlers EXCEPT
                                 ![a] = unsubscribe(@, callback, keys)]
          /\ last_op' = Op("unsubscribe", a, callback, "", NoEvent, <<>>)
    /\ UNCHANGED <<controller_apps, tasks_registry, wrapped>>
    /\ UNCHANGED <<zvars, pvars, cvars>>

\* the controller gives an event or a message to the apps
ToAppsCall ==
    /\ controller_apps # <<>>
    /\ \E type \in HandlerTypes, subtype \in Subtypes,
          results \in [1..MaxHandlers -> Results] :
          LET event == [type |-> type, subtype |-> subtype]
          IN last_op' = Op("deliver", 0, "", "", event,
                           ToApps(controller_apps, event, results))
    /\ UNCHANGED <<controller_apps, app_handlers, tasks_registry, wrapped>>
    /\ UNCHANGED <<zvars, pvars, cvars>>

AppsNext ==
    \/ CreateApp
    \/ FacadeSubscribe
    \/ FacadeUnsubscribe
    \/ AppUnsubscribe
    \/ ToAppsCall

\* ============================================================ wrapped tasks
\* the entries of Controller._tasks for a task
EntriesOf(reg, task) == {k \in 1..Len(reg) : reg[k].task = task}

\* Controller._ensure_future: self._tasks[scope_key].append(task), with the
\* key that the task was given as its scope
register(reg, tasks) ==
    Append(reg, [key |-> tasks[Len(tasks)].scope, task |-> Len(tasks)])

\* (mutant) a done-callback that leaves the list as it is
task_callback_keeps(reg, task, scope_key) == [reg |-> reg, raised |-> ""]

\* Controller._task_callback: self._tasks[scope_key].remove(task) takes the
\* first entry of the task out of the key's list, and raises ValueError when
\* there is none
task_callback(reg, task, scope_key) ==
    LET found == {k \in EntriesOf(reg, task) : reg[k].key = scope_key}
    IN IF found = {} THEN [reg |-> reg, raised |-> "ValueError"]
       ELSE LET k == CHOOSE k \in found : \A m \in found : k <= m
            IN [reg |-> SubSeq(reg, 1, k - 1) \o SubSeq(reg, k + 1, Len(reg)),
                raised |-> ""]

\* what the coroutine of a task does at a step: it awaits something that is
\* not ready, returns, or raises an exception
StepOutcomes == {"suspend", "return", "raise"}
\* what it does when CancelledError is thrown into its await: it lets the
\* error through, returns, or raises another exception
CancelOutcomes == {"propagate", "return", "raise"}

\* (mutant) a wrapper without "except Exception": the exception ends the task
capture_exception_reraises(w, outcome) ==
    IF outcome = "raise"
    THEN [w EXCEPT !.pc = "finished", !.end = "raised", !.outcome = outcome]
    ELSE [w EXCEPT !.pc = "finished", !.end = "returned", !.outcome = outcome,
                   !.logged = IF outcome = "return" THEN "done" ELSE "cancelled"]

\* capture_exception at the point where "await coroutine" comes back: the
\* debug line after the await, "except asyncio.CancelledError" or "except
\* Exception"; each logs and the wrapper returns
capture_exception(w, outcome) ==
    [w EXCEPT !.pc = "finished", !.end = "returned", !.outcome = outcome,
              !.logged = CASE outcome = "return" -> "done"
                           [] outcome = "propagate" -> "cancelled"
                           [] OTHER -> "exception"]

\* the step of a task that was cancelled before its first step: asyncio throws
\* CancelledError into the coroutine object, which has not started, so the
\* try statement of capture_exception is never entered and the task ends
\* cancelled
cancelled_unstarted(w) == [w EXCEPT !.pc = "finished", !.end = "cancelled"]

\* the scopes tasks are started in: none, a phase by name, a datapath
WrappedScopes ==
    {<<>>, PlainKey("START")} \cup {DatapathKey(d) : d \in CtlDatapathIds}

\* ---------------------------------------------------------------- actions
\* Controller._ensure_future is called with a scope key, or with none
WrappedEnsureFuture ==
    /\ Len(atasks) < MaxAppTasks
    /\ \E scope_key \in WrappedScopes :
          LET st == ensure_future(Ctl, scope_key, None, None)
          IN /\ SetCtl(st)
             /\ tasks_registry' = register(tasks_registry, st.tasks)
             /\ wrapped' = Append(wrapped,
                                  [pc |-> "new", given |-> scope_key,
                                   at_phase |-> phase, key |-> st.tasks[Len(st.tasks)].scope,
                                   end |-> "", outcome |-> "", logged |-> "",
                                   removed |-> 0, raised |-> ""])
    /\ UNCHANGED <<controller_apps, app_handlers, last_op>>
    /\ UNCHANGED <<run_pc, start_pc, start_rpcs, inbuf, eof, conn_closed, aio,
                   idle_task, lines_sent, signals, last_signal, cancel_key>>
    /\ UNCHANGED <<zvars, pvars>>

\* _run moves to the next phase: Controller._set_phase
SetPhaseCall ==
    /\ \E k \in 1..(Len(Phases) - 1) :
          /\ Phases[k] = phase
          /\ SetCtl(set_phase(Ctl, Phases[k + 1]))
    /\ UNCHANGED <<run_pc, start_pc, start_rpcs, inbuf, eof, conn_closed, aio,
                   idle_task, lines_sent, signals, last_signal, cancel_key>>
    /\ UNCHANGED <<zvars, pvars, avars>>

\* Controller._cancel_tasks is called for a datapath that went down
WrappedCancelTasks ==
    /\ \E d \in CtlDatapathIds : SetCtl(cancel_tasks(Ctl, DatapathKey(d)))
    /\ UNCHANGED <<run_pc, start_pc, start_rpcs, inbuf, eof, conn_closed, aio,
                   idle_task, lines_sent, signals, last_signal, cancel_key>>
    /\ UNCHANGED <<zvars, pvars, avars>>

\* asyncio runs a step of a task
WrappedTaskStep ==
    /\ \E i \in 1..Len(wrapped) :
          /\ wrapped[i].pc \in {"new", "awaiting"}
          /\ IF atasks[i].st = "cancelled"
             THEN /\ \E outcome \in CancelOutcomes :
                        wrapped' = [wrapped EXCEPT
                                       ![i] = IF @.pc = "new"
                                              THEN cancelled_unstarted(@)
                                              ELSE capture_exception(@, outcome)]
                  /\ UNCHANGED atasks
             ELSE \E outcome \in StepOutcomes :
                     IF outcome = "suspend"
                     THEN /\ wrapped' = [wrapped EXCEPT ![i].pc = "awaiting"]
                          /\ UNCHANGED atasks
                     ELSE /\ wrapped' = [wrapped EXCEPT
                                            ![i] = capture_exception(@, outcome)]
                          /\ atasks' = [atasks EXCEPT ![i].st = "done"]
    /\ UNCHANGED <<controller_apps, app_handlers, last_op, tasks_registry>>
    /\ UNCHANGED <<phase, phase_log, ctl_queue, queue_open, cready, run_pc,
                   start_pc, start_rpcs, rpc, loop_pc, inbuf, eof, conn_closed,
                   aio, idle_task, app_events, chan_msgs, lines_sent, signals,
                   events_posted, major_version, itask, drains, last_signal, cancel_key>>
    /\ UNCHANGED <<zvars, pvars>>

\* asyncio calls the done-callback of a task that has ended:
\* partial(self._task_callback, scope_key=scope_key)
TaskCallback ==
    /\ \E i \in 1..Len(wrapped) :
          /\ wrapped[i].pc = "finished"
          /\ LET r == task_callback(tasks_registry, i, wrapped[i].key)
             IN /\ tasks_registry' = r.reg
                /\ wrapped' = [wrapped EXCEPT
                                  ![i].pc = "called_back",
                                  ![i].raised = r.raised,
                                  ![i].removed = IF r.raised = "" THEN @ + 1 ELSE @]
    /\ UNCHANGED <<controller_apps, app_handlers, last_op>>
    /\ UNCHANGED <<zvars, pvars, cvars>>

WrappedNext ==
    \/ WrappedEnsureFuture
    \/ SetPhaseCall
    \/ WrappedCancelTasks
    \/ WrappedTaskStep
    \/ TaskCallback

\* ============================================================ specifications
\* ---------------------------------------------------------------- handler lookup
MaxLookups == 3
MaxAppChanges == 1

\* event types as the backend writes them, one of them in mixed case
LookupTypes == {"CHANNEL_UP", "CHANNEL_ALERT", "PACKET_IN", "Packet_In"}

\* 'on_%s' % event_type.lower()
handler_name(event_type) ==
    CASE event_type = "CHANNEL_UP" -> "on_channel_up"
      [] event_type = "CHANNEL_ALERT" -> "on_channel_alert"
      [] event_type \in {"PACKET_IN", "Packet_In"} -> "on_packet_in"

HandlerNames == {handler_name(t) : t \in LookupTypes}

\* a bound method: the app's position in Controller.apps and the method's name;
\* position 0 is the controller itself
Method(a, name) == <<a, name>>
NotCached == [cached |-> FALSE, handlers |-> <<>>]
Cached(hs) == [cached |-> TRUE, handlers |-> hs]

\* the loop of zof_find_handlers over self.apps: getattr(app, handler_name, None)
AppMethods(apps, name) ==
    LET having == SelectSeq([a \in 1..Len(apps) |-> a], LAMBDA a : name \in apps[a])
    IN [i \in 1..Len(having) |-> Method(having[i], name)]

\* the handlers zof_find_handlers builds when the name is not in the cache
BuiltHandlers(apps, name) ==
    IF name = "on_channel_alert" /\ AppMethods(apps, name) = <<>>
    THEN <<Method(0, "on_channel_alert")>>
    ELSE AppMethods(apps, name)

\* (mutant) zof_find_handlers that does not look into the cache
zof_find_handlers_uncached(cache, apps, event_type) ==
    LET name == handler_name(event_type)
        built == BuiltHandlers(apps, name)
    IN [handlers |-> built, cache |-> [cache EXCEPT ![name] = Cached(built)]]

\* Controller.zof_find_handlers, with the cache and the apps it reads
zof_find_handlers_in(cache, apps, event_type) ==
    LET name == handler_name(event_type)
        built == BuiltHandlers(apps, name)
    IN IF cache[name].cached
       THEN [handlers |-> cache[name].handlers, cache |-> cache]
       ELSE [handlers |-> built, cache |-> [cache EXCEPT ![name] = Cached(built)]]

\* the handlers zof_dispatch_event calls, in the order it calls them
RECURSIVE HandlerCalls(_)
HandlerCalls(handlers) ==
    IF handlers = <<>> THEN <<>>
    ELSE <<Head(handlers)>> \o HandlerCalls(Tail(handlers))

\* the n-th call, after so many changes of the apps' methods
Found(n, changes, kind, type, handlers, calls) ==
    [n |-> n, changes |-> changes, kind |-> kind, type |-> type,
     handlers |-> handlers, calls |-> calls]

NoteFirst(first, name, hs) ==
    IF first[name].cached THEN first ELSE [first EXCEPT ![name] = Cached(hs)]

\* a call of zof_find_handlers
FindHandlers ==
    /\ zfound.n < MaxLookups
    /\ \E type \in LookupTypes :
          LET r == zof_find_handlers_in(zcache, zmethods, type)
          IN /\ zcache' = r.cache
             /\ zfound' = Found(zfound.n + 1, zfound.changes, "find", type,
                                r.handlers, <<>>)
             /\ zfirst' = NoteFirst(zfirst, handler_name(type), r.handlers)
    /\ UNCHANGED <<zmethods, zcore>>
    /\ UNCHANGED <<pvars, cvars, avars>>

\* a call of zof_dispatch_event
DispatchEvent ==
    /\ zfound.n < MaxLookups
    /\ \E type \in LookupTypes :
          LET r == zof_find_handlers_in(zcache, zmethods, type)
          IN /\ zcache' = r.cache
             /\ zfound' = Found(zfound.n + 1, zfound.changes, "dispatch", type,
                                r.handlers, HandlerCalls(r.handlers))
             /\ zfirst' = NoteFirst(zfirst, handler_name(type), r.handlers)
    /\ UNCHANGED <<zmethods, zcore>>
    /\ UNCHANGED <<pvars, cvars, avars>>

\* an on_ method is set on an app, or deleted from it, while the controller runs
AppChange ==
    /\ zfound.changes < MaxAppChanges
    /\ \E a \in 1..Len(zmethods), name \in HandlerNames :
          zmethods' = [zmethods EXCEPT ![a] = IF name \in @ THEN @ \ {name}
                                               ELSE @ \cup {name}]
    /\ zfound' = [zfound EXCEPT !.changes = @ + 1]
    /\ UNCHANGED <<zcache, zfirst, zcore>>
    /\ UNCHANGED <<pvars, cvars, avars>>

HandlersNext ==
    \/ FindHandlers
    \/ DispatchEvent
    \/ AppChange

\* Controller.__init__: the apps as given, an empty cache
HandlersInitWith(apps) ==
    /\ zmethods = apps
    /\ zcache = [name \in HandlerNames |-> NotCached]
    /\ zfound = Found(0, 0, "none", "", <<>>, <<>>)
    /\ zfirst = [name \in HandlerNames |-> NotCached]

\* the apps of the event loop's model, by the names of their methods
LoopApps == << {"on_channel_up", "on_packet_in"}, {"on_channel_up"} >>

ZofLoopInit ==
    /\ event_queue = <<>>
    /\ posted = 0
    /\ connections = [c \in ConnIds |-> 0]
    /\ dpids = [d \in DpIds |-> 0]
    /\ datapaths = <<>>
    /\ ztasks = <<>>
    /\ ready = <<>>
    /\ running = LoopTask
    /\ zpc = "run"
    /\ zlog = <<>>
    /\ zerrors = 0
    /\ zrun = "loop"
    /\ zcancel = FALSE
    /\ zquit = 0
    /\ zapp = 1
    /\ zpre = 0
    /\ zexc = "return"

ZofInit == ZofLoopInit /\ HandlersInitWith(LoopApps)

\* a controller made with any two apps
ZofHandlersInit ==
    /\ ZofLoopInit
    /\ \E apps \in [1..2 -> SUBSET HandlerNames] : HandlersInitWith(apps)

ZofNext ==
    \/ PostEvent
    \/ Schedule
    \/ LoopWait
    \/ LoopChannelUp
    \/ LoopChannelDown
    \/ LoopOther
    \/ TaskStep
    \/ TaskWake

\* Controller.run from its first step to its return, with apps whose
\* on_exception handler does exc
ZofRunInitWith(exc) ==
    /\ zexc = exc
    /\ HandlersInitWith(LoopApps)
    /\ event_queue = <<>>
    /\ posted = 0
    /\ connections = [c \in ConnIds |-> 0]
    /\ dpids = [d \in DpIds |-> 0]
    /\ datapaths = <<>>
    /\ ztasks = <<>>
    /\ ready = <<LoopTask>>
    /\ running = NoTask
    /\ zpc = "run"
    /\ zlog = <<>>
    /\ zerrors = 0
    /\ zrun = "new"
    /\ zcancel = FALSE
    /\ zquit = 0
    /\ zapp = 1
    /\ zpre = 0

ZofRunInit == ZofRunInitWith("return")

ZofRunNext ==
    \/ ZofNext
    \/ RunEnter
    \/ RunWake
    \/ RunStartApp
    \/ RunStartResume
    \/ RunListen
    \/ RunLoopEnter
    \/ Quit
    \/ RunCancelled
    \/ RunStopApp
    \/ RunStopResume
    \/ RunReturn

vars == <<zvars, pvars, cvars, avars>>

\* the zof controller inside zof_event_loop
Init == ZofInit /\ ReplyInit /\ AppsInit /\ CtlInit

Spec == Init /\ [][ZofNext]_vars

\* the zof controller from the start of run() to its end
InitRun == ZofRunInit /\ ReplyInit /\ AppsInit /\ CtlInit
SpecRun == InitRun /\ [][ZofRunNext]_vars

\* the handler lookup of a zof controller
InitHandlers == ZofHandlersInit /\ ReplyInit /\ AppsInit /\ CtlInit
SpecHandlers == InitHandlers /\ [][HandlersNext]_vars

\* the same, with apps whose on_exception handler raises
InitRunFailing == ZofRunInitWith("raise") /\ ReplyInit /\ AppsInit /\ CtlInit
SpecRunFailing == InitRunFailing /\ [][ZofRunNext]_vars

\* the steps of the controller's own code: once one of them can be taken, it is
\* taken (asyncio runs every ready task; the waits of _run_pending are bounded
\* by their timeout; the connection's connect() and disconnect() return). The
\* backend's lines, the signals and the apps are under no such obligation.
CtlSteps ==
    \/ ConnectionDone
    \/ RunBegin \/ RunPrestart \/ RunRead \/ RunEof \/ RunEnd
    \/ StartBegin \/ StartNextRpc \/ StartDone \/ StartFail \/ StartUnsupported
    \/ EvLoopWait \/ EvLoopDispatch \/ EvLoopExit
    \/ ShutdownDone

\* the pylibofp controller in phase START: requests, replies and the sweeper
SpecReply == Init /\ [][ReplyNext]_vars

\* the same, with apps that also choose the xid of a request themselves
ReplyOwnNext == ReplyNext \/ RequestOwnXid
SpecReplyOwn == Init /\ [][ReplyOwnNext]_vars

\* the pylibofp controller from run_loop to the end of _shutdown_cleanly
SpecCtl == Init /\ [][CtlNext]_vars

\* the task scopes of the controller: tasks are started, end and are cancelled
SpecTasks == Init /\ [][TasksNext]_vars

\* the apps of a pylibofp controller: they are created, subscribe and
\* unsubscribe handlers, and are given events
SpecApps == Init /\ [][AppsNext]_vars

\* the tasks started through _ensure_future, from their creation to their
\* done-callback, under phase changes and cancelled scopes
SpecWrapped == Init /\ [][WrappedNext]_vars

\* the same controller, whose own steps are taken once they can be; the
\* backend's lines and the signals together number at most FairInputs
InitFair == ZofInit /\ ReplyInit /\ AppsInit /\ CtlInitAfter(MaxLines - FairInputs)
SpecCtlFair == InitFair /\ [][CtlNext]_vars /\ WF_vars(CtlSteps)

\* ============================================================ claims
LogIdx == 1..Len(zlog)
IsCall(p) == zlog[p].k = "call"
IsTask(p, what, i) == zlog[p].k = "task" /\ zlog[p].type = what /\ zlog[p].task = i

\* C1: handler calls happen in the order in which their events were put on the
\* driver's event queue: no handler call for an event enqueued later precedes a
\* handler call for an event enqueued earlier.
C1_DispatchInEnqueueOrder ==
    \A p, q \in LogIdx :
        (p < q /\ IsCall(p) /\ IsCall(q)) => zlog[p].seq <= zlog[q].seq

\* C1 witness: three events were dispatched, to five handler calls.
C1_Witness ==
    /\ Cardinality({ zlog[p].seq : p \in { x \in LogIdx : IsCall(x) } }) = 3
    /\ Cardinality({ p \in LogIdx : IsCall(p) }) >= 5

\* the positions of the CHANNEL_DOWN handler calls for Datapath d
DownCalls(d) ==
    { p \in LogIdx : IsCall(p) /\ zlog[p].type = "CHANNEL_DOWN" /\ zlog[p].dp = d }

\* task i was suspended when the CHANNEL_DOWN of its datapath was processed: it
\* had begun, and had neither returned nor gone on, before the handlers were called
SuspendedAtDown(i) ==
    LET d == ztasks[i].scope
    IN /\ d # 0
       /\ DownCalls(d) # {}
       /\ \E b \in LogIdx : IsTask(b, "BEGIN", i) /\ \A p \in DownCalls(d) : b < p
       /\ ~\E e \in LogIdx : /\ (IsTask(e, "RETURN", i) \/ IsTask(e, "NEXT", i))
                              /\ \A p \in DownCalls(d) : e < p

\* C2: a task in D's scope that is suspended when CHANNEL_DOWN for D is processed
\* is cancelled, observes the cancellation only after the CHANNEL_DOWN handlers
\* were called, and never runs past its suspension point.
C2_DownCancelsSuspendedTask ==
    \A i \in 1..Len(ztasks) :
        SuspendedAtDown(i) =>
            /\ ztasks[i].must_cancel
            /\ ztasks[i].pc # "done"
            /\ ~\E n \in LogIdx : IsTask(n, "NEXT", i)
            /\ \A c \in LogIdx : IsTask(c, "CANCEL", i) =>
                   \A p \in DownCalls(ztasks[i].scope) : p < c

\* C2 witness: a task that was suspended at the CHANNEL_DOWN has seen the
\* cancellation.
C2_Witness ==
    \E i \in 1..Len(ztasks) :
        /\ SuspendedAtDown(i)
        /\ ztasks[i].pc = "cancelled"
        /\ \E c \in LogIdx : IsTask(c, "CANCEL", i)

\* ---------------------------------------------------------------- reply handles
Handles == 1..Len(futs)
Registered(h) == \E i \in 1..Len(reqs) : reqs[i].fut = h
Accepted(h) == SelectSeq(delivered[h], LAMBDA v : ~v.refused)
Terminal(v) == v.k # "result" \/ ~v.more
KeyOf(v) == <<v.k, v.n>>
Keys(sq) == [i \in 1..Len(sq) |-> KeyOf(sq[i])]
\* the results and errors the consumer of handle h got from its awaits
Obtained(h) ==
    SelectSeq(consumers[h].got, LAMBDA g : g.k \in {"result", "error", "timeout"})
InFlight(h) == IF consumers[h].pc = "woken" THEN <<consumers[h].inbox>> ELSE <<>>

\* C4: the values and errors the single consumer of a handle obtains are, in
\* order, the ones delivered to the handle: what it has obtained, followed by
\* the value on its way through the asyncio future and by the queued results,
\* is the sequence of deliveries; while the consumer only awaits, no delivery
\* is refused.
C4_RepliesInDeliveryOrder ==
    \A h \in Handles :
        /\ Keys(Obtained(h)) \o Keys(InFlight(h)) \o Keys(futs[h].results)
               = Keys(Accepted(h))
        /\ consumers[h].pc # "cancelled" => Accepted(h) = delivered[h]

\* C4 witness: two deliveries, the first of them queued while nobody awaited,
\* and both obtained in order.
C4_Witness ==
    \E h \in Handles :
        /\ Len(delivered[h]) = 2
        /\ Len(Obtained(h)) = 2
        /\ consumers[h].got[1].k = "result"
        /\ consumers[h].got[1].more

\* every delivery so far was a result with more to come
MoreRun(d) == \A i \in 1..Len(d) : d[i].k = "result" /\ d[i].more
\* the deliveries are n - 1 results with more to come and a last result
FinalDelivered(d) ==
    /\ d # <<>>
    /\ d[Len(d)].k = "result" /\ ~d[Len(d)].more
    /\ MoreRun(SubSeq(d, 1, Len(d) - 1))

\* C5: a request whose replies so far all carry MORE is still in the reply
\* table; once the last reply (no MORE) has come it is out of the table, the
\* consumer obtains exactly the n replies in order, the iteration then stops,
\* a further await raises InvalidStateError, and the consumer never suspends
\* again.
C5_MultiReply ==
    \A h \in Handles :
        LET d == Accepted(h)
            g == consumers[h].got
            n == Len(d)
        IN /\ (d # <<>> /\ MoreRun(d)) => Registered(h)
           /\ FinalDelivered(d) =>
                /\ ~Registered(h)
                /\ \A i \in 1..Len(g) :
                      /\ i <= n => g[i].k = "result" /\ g[i].n = d[i].n
                      /\ i > n => /\ g[i].op = "anext" => g[i].k = "stop"
                                  /\ g[i].op = "await" => g[i].k = "invalid_state"
                /\ Len(g) >= n => consumers[h].pc = "idle"

\* C5 witness: two replies, the first with MORE, were iterated; the iteration
\* stopped and one more await raised InvalidStateError.
C5_Witness ==
    \E h \in Handles :
        /\ FinalDelivered(Accepted(h))
        /\ Len(Accepted(h)) = 2
        /\ Len(consumers[h].got) = 4
        /\ consumers[h].got[3].k = "stop"
        /\ consumers[h].got[4].k = "invalid_state"

\* C6: after a terminal delivery (a last result, an error or a timeout) was
\* made to a handle, set_result and set_exception are not called on it again.
C6_NothingAfterTerminal ==
    \A h \in Handles :
        \A i, j \in 1..Len(delivered[h]) :
            i < j => ~(Terminal(delivered[h][i]) /\ ~delivered[h][i].refused)

\* C6 witness: a handle got its terminal delivery and a later frame with its
\* xid was dispatched (it went to the apps).
C6_Witness ==
    \E h \in Handles :
        /\ Accepted(h) # <<>>
        /\ Terminal(Accepted(h)[Len(Accepted(h))])
        /\ \E m \in 1..Len(app_msgs) :
              /\ app_msgs[m].xid = futs[h].xid
              /\ app_msgs[m].n > Accepted(h)[Len(Accepted(h))].n

\* C7 (as claimed): a request whose deadline was reached at a run of the
\* sweeper has got its timeout and is out of the table, and no timeout is
\* delivered before the deadline.
C7_TimeoutAtFirstSweep ==
    /\ \A i \in 1..Len(reqs) : reqs[i].expiration > swept_at
    /\ \A h \in Handles : \A i \in 1..Len(delivered[h]) :
          delivered[h][i].k = "timeout" => delivered[h][i].at >= futs[h].deadline

\* C8 (as claimed): once the consumer has been given the timeout, done() is
\* true, the iteration stops and a further await raises InvalidStateError: the
\* consumer never suspends on the handle again.
C8_TimeoutIsTerminal ==
    \A h \in Handles :
        \A i \in 1..Len(consumers[h].got) :
            consumers[h].got[i].k = "timeout" =>
                /\ done(futs[h])
                /\ consumers[h].pc = "idle"
                /\ \A j \in 1..Len(consumers[h].got) :
                      j > i => consumers[h].got[j].k \in {"stop", "invalid_state"}

\* the same statement for an error delivered by the backend, which holds
C8_ErrorIsTerminal ==
    \A h \in Handles :
        \A i \in 1..Len(consumers[h].got) :
            consumers[h].got[i].k = "error" =>
                /\ done(futs[h])
                /\ consumers[h].pc = "idle"
                /\ \A j \in 1..Len(consumers[h].got) :
                      j > i => consumers[h].got[j].k \in {"stop", "invalid_state"}

\* ---------------------------------------------------------------- life cycle
Rank(ph) == CHOOSE i \in 1..Len(Phases) : Phases[i] = ph

\* C9 (as claimed): the phase only moves forward along INIT, PRESTART, START,
\* STOP, POSTSTOP; no _set_phase takes it to an earlier phase.
C9_PhaseMonotone ==
    \A i, j \in 1..Len(phase_log) :
        i < j => Rank(phase_log[i]) <= Rank(phase_log[j])

Received(name) == \E e \in 1..Len(app_events) : app_events[e] = name
Entered(ph) == \E i \in 2..Len(phase_log) : phase_log[i] = ph

\* C10 (as claimed): the STOP event, posted when the phase becomes STOP, has
\* been received by the apps when the controller reaches POSTSTOP.
C10_StopEventReachesApps ==
    (phase = "POSTSTOP" /\ Entered("STOP")) => Received("STOP")

\* what the code does instead: the apps never receive a STOP or POSTSTOP event
C10_StopEventNeverReceived == ~Received("STOP") /\ ~Received("POSTSTOP")

\* C3 (as claimed): a task started with ensure_future(datapath_id=D), or with
\* conn_id=C and no datapath id, is not left running by the handling of the
\* CHANNEL_DOWN of D (of C).
C3_ChannelDownCancelsTasks ==
    \A i \in 1..Len(atasks) : atasks[i].down => atasks[i].st # "pending"

\* ---------------------------------------------------------------- run life cycle
\* the on_start (what = "START") or on_stop (what = "STOP") of app a has returned
\* within the first n entries of the log
Finished(what, a, n) ==
    LET kind == IF what = "START" THEN LifecycleHandlers[a].on_start
                ELSE LifecycleHandlers[a].on_stop
        last == IF kind = "async"
                THEN (IF what = "START" THEN "START_DONE" ELSE "STOP_DONE")
                ELSE what
    IN kind = "none" \/
       \E s \in 1..n : zlog[s].k = "life" /\ zlog[s].app = a /\ zlog[s].type = last
Apps == 1..Len(LifecycleHandlers)
\* an event handler was called at position p of the log
IsDispatch(p) == zlog[p].k \in {"call", "synth"}

\* C11: no event is dispatched to a handler before the on_start of every app has
\* returned, an async on_start that suspends included.
C11_NoDispatchBeforeStarted ==
    \A p \in LogIdx : IsDispatch(p) => \A a \in Apps : Finished("START", a, p - 1)

\* C11 witness: an event that was posted while an on_start was suspended has
\* been dispatched, after that on_start went on and returned.
C11_Witness ==
    \E p \in LogIdx :
        /\ IsCall(p) /\ zpre >= 1 /\ zlog[p].seq <= zpre
        /\ \E s \in 1..(p - 1) : zlog[s].k = "life" /\ zlog[s].type = "START_DONE"

\* the on_start (what = "START") or on_stop (what = "STOP") of app a was invoked
Invoked(what, a) ==
    \E s \in LogIdx : zlog[s].k = "life" /\ zlog[s].app = a /\ zlog[s].type = what
\* run() has ended: it returned after on_stop, or the cancellation ended it
RunEnded == zrun \in {"done", "aborted"}

\* C12: when run() has ended after the on_start handlers were invoked and had
\* returned, the on_stop handlers were invoked too, whether the run ended by
\* itself or by the cancellation that an exit signal requests.
C12_StopFollowsStart ==
    (RunEnded /\ \A a \in Apps : Finished("START", a, Len(zlog)))
        => \A a \in Apps : LifecycleHandlers[a].on_stop # "none" => Invoked("STOP", a)

\* the graceful case alone: a run that was cancelled inside zof_event_loop and
\* not again has invoked every on_stop when it returns
C12_StopAfterLoop ==
    zrun = "done" => \A a \in Apps : Finished("STOP", a, Len(zlog))

\* ---------------------------------------------------------------- channels
Datapaths == 1..Len(datapaths)
\* the CHANNEL_UP of Datapath d was dispatched
UpDispatched(d) ==
    \E p \in LogIdx : IsCall(p) /\ zlog[p].type = "CHANNEL_UP" /\ zlog[p].dp = d
\* Datapath d was force-closed by a handler, at position p of the log
ClosedAt(d, p) == zlog[p].k = "close" /\ zlog[p].dp = d
ForceClosed(d) == \E p \in LogIdx : ClosedAt(d, p)
\* the calls of app a's CHANNEL_DOWN handler for Datapath d, backend's or synthetic
DownDispatches(d, a) ==
    { p \in LogIdx : /\ IsDispatch(p) /\ zlog[p].type = "CHANNEL_DOWN"
                     /\ zlog[p].dp = d /\ zlog[p].app = a }
DownHandlers == { a \in Apps : "CHANNEL_DOWN" \in AppHandlers[a] }

HandlerRaised(p) == zlog[p].k = "raise"
\* the apps whose handler for an event of this type is called after app a's
LaterHandlers(type, a) == { b \in Apps : type \in AppHandlers[b] /\ b > a }

StartedByDown(i) ==
    \E p \in LogIdx : /\ IsCall(p) /\ zlog[p].type = "CHANNEL_DOWN"
                      /\ zlog[p].seq = ztasks[i].origin
                      /\ zlog[p].dp = ztasks[i].scope

\* C15: a task that a CHANNEL_DOWN handler starts for the datapath going down is
\* not cancelled by the teardown of that CHANNEL_DOWN: it is never asked to
\* cancel and never observes a cancellation.
C15_DownHandlerTaskSurvives ==
    \A i \in 1..Len(ztasks) : StartedByDown(i) =>
        /\ ~ztasks[i].must_cancel
        /\ ztasks[i].pc # "cancelled"
        /\ ~\E c \in LogIdx : IsTask(c, "CANCEL", i)

\* C15 witness: a task started by a CHANNEL_DOWN handler has suspended and has
\* gone on past its suspension point.
C15_Witness ==
    \E i \in 1..Len(ztasks) :
        /\ StartedByDown(i)
        /\ \E b, n \in LogIdx : b < n /\ IsTask(b, "BEGIN", i) /\ IsTask(n, "NEXT", i)

\* ---------------------------------------------------------------- force-close
\* C16: the apps observe exactly one CHANNEL_DOWN for a datapath that a handler
\* force-closed, the synthetic one of the close: the backend's CHANNEL_DOWN
\* that follows is not dispatched, and zof_cleanup adds none.
C16_ForceCloseOneDown ==
    \A d \in Datapaths : ForceClosed(d) =>
        \A a \in DownHandlers :
            /\ Cardinality(DownDispatches(d, a)) = 1
            /\ \A p \in DownDispatches(d, a) : zlog[p].k = "synth"

\* C16 witness: a datapath was force-closed, the backend's CHANNEL_DOWN for its
\* connection was then taken from the queue (the datapath has left
\* _connections), and the event loop has gone on.
C16_Witness ==
    \E d \in Datapaths :
        /\ ForceClosed(d)
        /\ connections[datapaths[d].conn_id] # d
        /\ zpc = "get"

\* ---------------------------------------------------------------- the two indexes
\* the Datapath objects held by _connections and by _dpids
InConnections == { connections[c] : c \in { x \in ConnIds : connections[x] # 0 } }
InDpids == { dpids[i] : i \in { x \in DpIds : dpids[x] # 0 } }

\* C17: _connections and _dpids hold the same Datapath objects, each once and
\* under its own conn_id and dp_id, so they have the same number of entries.
C17_IndexesAgree ==
    /\ InConnections = InDpids
    /\ Cardinality({ c \in ConnIds : connections[c] # 0 })
          = Cardinality({ i \in DpIds : dpids[i] # 0 })
    /\ \A c \in ConnIds : connections[c] # 0 =>
          /\ datapaths[connections[c]].conn_id = c
          /\ dpids[datapaths[connections[c]].id] = connections[c]

\* C17 witness: with a datapath connected, a CHANNEL_UP that repeated a conn_id
\* or dp_id and a CHANNEL_DOWN for an unknown conn_id have been refused.
C17_Witness ==
    /\ zerrors >= 2
    /\ InConnections # {}
    /\ Len(datapaths) = 1
    /\ event_queue = <<>>

\* ---------------------------------------------------------------- closed datapaths
\* Datapath d was closed at position q of the log: a handler force-closed it or
\* its CHANNEL_DOWN was dispatched
DownAt(d, q) ==
    ClosedAt(d, q) \/ (IsDispatch(q) /\ zlog[q].type = "CHANNEL_DOWN" /\ zlog[q].dp = d)
\* a handler was called at position p with Datapath d for an event that is not
\* a CHANNEL_DOWN
OtherCall(d, p) == IsCall(p) /\ zlog[p].type # "CHANNEL_DOWN" /\ zlog[p].dp = d

\* C18: no handler is called, for an event other than CHANNEL_DOWN, with a
\* Datapath that is closed: after a datapath was force-closed or its
\* CHANNEL_DOWN was dispatched, no handler is called with it again.
C18_NoHandlerForClosed ==
    \A d \in Datapaths : \A p, q \in LogIdx :
        (q < p /\ DownAt(d, q)) => ~OtherCall(d, p)

\* what zof_event_loop does ensure: an event taken from the queue after the
\* datapath was closed is not dispatched
C18_LaterEventsDropped ==
    \A d \in Datapaths : \A p, q \in LogIdx :
        (q < p /\ DownAt(d, q) /\ zlog[q].seq < zlog[p].seq) => ~OtherCall(d, p)

\* ---------------------------------------------------------------- start-up failure
\* an rpc call of _start failed with a controller error and _start has handled it
StartFailed == start_pc = "done" /\ rpc = "error"
\* event a was posted, and event b right after it
PostedInOrder(a, b) ==
    \E i \in 1..(Len(events_posted) - 1) :
        events_posted[i] = a /\ events_posted[i + 1] = b
WasPosted(a) == \E i \in 1..Len(events_posted) : events_posted[i] = a
EnteredPhase(ph) == \E i \in 1..Len(phase_log) : phase_log[i] = ph

\* C19: when an rpc call of _start (description, listen) fails with a controller
\* error, the phase never becomes START, no START event is posted, and
\* STARTFAIL and then EXIT are posted.
C19_StartFailure ==
    StartFailed =>
        /\ ~EnteredPhase("START")
        /\ ~WasPosted("START")
        /\ PostedInOrder("STARTFAIL", "EXIT")

\* the step in which _start handles the failure of an rpc call
StartFailing == start_pc = "rpc" /\ rpc = "error" /\ start_pc' = "done"

\* what does hold: a failed start never enters START nor posts START, and when
\* the failure is handled while _run has not yet dropped the event queue,
\* STARTFAIL and EXIT are posted in that order
C19_StartFailureBeforeRunEnds ==
    /\ [](StartFailed => (~EnteredPhase("START") /\ ~WasPosted("START")))
    /\ [][(StartFailing /\ queue_open) =>
              events_posted' = events_posted \o <<"STARTFAIL", "EXIT">>]_vars

\* ---------------------------------------------------------------- version check
\* _get_description found a major API version above _API_VERSION
VersionRefused == start_pc = "raised"

\* C20: when the backend's description reports a major API version above the
\* supported one, the start is aborted like any other start failure: STARTFAIL
\* and then EXIT are posted, no listen request is made and the phase never
\* becomes START.
C20_UnsupportedVersionFailsStart ==
    VersionRefused =>
        /\ PostedInOrder("STARTFAIL", "EXIT")
        /\ start_rpcs = StartRpcs
        /\ ~EnteredPhase("START")

\* what does hold: no listen request is made and the phase never becomes START
C20_UnsupportedVersionStopsStart ==
    VersionRefused => (start_rpcs = StartRpcs /\ ~EnteredPhase("START"))

\* and neither STARTFAIL nor, unless the connection ends or a signal arrives,
\* EXIT is ever posted for it
C20_NoStartFailPosted ==
    VersionRefused => ~WasPosted("STARTFAIL")

\* ---------------------------------------------------------------- signals
\* the step in which the handler of signal name runs
SignalStep(name) == signals' = signals + 1 /\ last_signal' = name
\* the step posts EXIT and nothing else
PostsExit ==
    /\ events_posted' = Append(events_posted, "EXIT")
    /\ ctl_queue' = Append(ctl_queue, Internal("EXIT"))

C22_RepeatedSigintExits ==
    [][(SignalStep("SIGINT") /\ last_signal = "SIGINT" /\ itask = "cancelled"
            /\ queue_open) => PostsExit]_vars

\* what the second SIGINT does: nothing at all
C22_RepeatedSigintIgnored ==
    [][(SignalStep("SIGINT") /\ itask = "cancelled") =>
           UNCHANGED <<events_posted, ctl_queue, itask, phase, cready>>]_vars

\* C23: once EXIT has been posted the controller eventually leaves its event
\* loop and reaches phase POSTSTOP; _shutdown_cleanly drains at most three
\* times, every attempt before the last one having reported newly started
\* tasks, and POSTSTOP is set even when a drain raises.
DrainsStopAtFirstQuiet ==
    /\ Len(drains) <= DrainAttempts
    /\ \A i \in 1..Len(drains) - 1 : drains[i] = "stopped"
    /\ (aio = "drain" /\ drains # <<>>) => drains[Len(drains)] = "stopped"
    /\ (aio = "closed" /\ drains # <<>>) => phase = "POSTSTOP"
XidAtLeast(x, y) == x[1] > y[1] \/ (x[1] = y[1] /\ x[2] >= y[2])
InXidRange(x) == XidAtLeast(x, Xid(MIN_XID)) /\ XidAtLeast(MAX_XID, x)
XidAfter(x) == IF x = MAX_XID THEN Xid(MIN_XID) ELSE Increment(x)
FirstAssignment == futs = <<>>
C24_XidsStartAtMin ==
    [][xid' # xid =>
          /\ InXidRange(xid')
          /\ FirstAssignment => xid' = Xid(MIN_XID)
          /\ ~FirstAssignment => xid' = XidAfter(xid)]_vars
\* what holds instead: every assigned xid follows the last one, the first one
\* follows 8092
C24_XidsFollowMin ==
    [][xid' # xid => (InXidRange(xid') /\ xid' = XidAfter(xid))]_vars

\* C25: registering a request under an xid that has an outstanding handle fails
\* and leaves that handle registered: no xid ever has two live handles, and an
\* outstanding handle is not replaced in the reply table.
Live(h) == ~futs[h].done
OneLiveHandle ==
    \A h1, h2 \in 1..Len(futs) :
        (h1 # h2 /\ futs[h1].xid = futs[h2].xid) => (~Live(h1) \/ ~Live(h2))
HandlesKept ==
    \A i \in 1..Len(reqs) :
        LET j == ReqIndex(reqs', reqs[i].xid)
        IN j # 0 => reqs'[j].fut = reqs[i].fut
C25_NoHandleReplaced == [][HandlesKept /\ OneLiveHandle']_vars

\* C26: the dispatch of an RPC reply whose id is not in the reply table changes
\* neither the table nor any handle, passes nothing to the apps and leaves the
\* event loop running.
IsRpcReply(ev) == ev.kind \in {"rpc_result", "rpc_error"}
UnknownReplyDispatched ==
    /\ pqueue # <<>>
    /\ pqueue' = Tail(pqueue)
    /\ IsRpcReply(Head(pqueue))
    /\ ReqIndex(reqs, Head(pqueue).xid) = 0
C26_UnknownReplyIgnored ==
    [][UnknownReplyDispatched =>
          /\ UNCHANGED <<reqs, futs, consumers, delivered, app_msgs>>
          /\ evloop' = evloop]_vars
\* a frame that was dispatched and reached neither a handle nor the apps: the
\* apps get every message and alert that no handle takes
Dispatched(n) == n \in 1..nframes /\ \A i \in 1..Len(pqueue) : pqueue[i].n # n
C26_Witness ==
    /\ evloop = "running"
    /\ \E n \in 1..nframes :
          /\ Dispatched(n)
          /\ \A h \in Handles : \A i \in 1..Len(delivered[h]) : delivered[h][i].n # n
          /\ \A m \in 1..Len(app_msgs) : app_msgs[m].n # n

\* C27: _cancel_tasks(scope) requests the cancellation of every task recorded
\* under that scope; for START and STOP, of every task in every scope; for any
\* other key the tasks under other keys are left as they are.
CancelsAll(key) == key \in {PlainKey("START"), PlainKey("STOP")}
\* a step that neither starts nor ends a task, after a call of _cancel_tasks
CancelTasksCalled ==
    /\ cancel_key' # <<>>
    /\ Len(atasks') = Len(atasks)
    /\ \A i \in 1..Len(atasks) : atasks'[i].st = "done" => atasks[i].st = "done"
C27_CancelByScope ==
    [][CancelTasksCalled =>
          \A i \in 1..Len(atasks) :
              IF atasks[i].st = "pending"
                 /\ (atasks[i].scope = cancel_key' \/ CancelsAll(cancel_key'))
              THEN atasks'[i] = [atasks[i] EXCEPT !.st = "cancelled"]
              ELSE atasks'[i] = atasks[i]]_vars
\* after _cancel_tasks with a key other than START and STOP: a task under the
\* key is cancelled, a task under another key still runs
C27_Witness ==
    /\ cancel_key # <<>> /\ ~CancelsAll(cancel_key)
    /\ \E i, j \in 1..Len(atasks) :
          /\ atasks[i].scope = cancel_key /\ atasks[i].st = "cancelled"
          /\ atasks[j].scope # cancel_key /\ atasks[j].st = "pending"
\* after _cancel_tasks with START or STOP: tasks under two other keys are cancelled
C27_WitnessAll ==
    /\ CancelsAll(cancel_key)
    /\ \E i, j \in 1..Len(atasks) :
          /\ atasks[i].scope # atasks[j].scope
          /\ atasks[i].scope # cancel_key /\ atasks[i].st = "cancelled"
          /\ atasks[j].scope # cancel_key /\ atasks[j].st = "cancelled"

\* C28: on every phase transition other than the one into PRESTART the tasks
\* scoped to the phase that is left are cancelled; tasks under scope PRESTART
\* are cancelled when the phase changes from PRESTART to START or to STOP.
ScopedToPhase(t) == t.scope = PlainKey(phase) /\ t.st = "pending"
LeftPhaseCancelled ==
    \A i \in 1..Len(atasks) : ScopedToPhase(atasks[i]) => atasks'[i].st = "cancelled"
C28_LeftPhaseCancelled ==
    [][(phase' # phase /\ phase' # "PRESTART") => LeftPhaseCancelled]_vars
\* as amended: the transition that cancels nothing is the one out of PRESTART,
\* which leaves every task as it is
C28_LeftPhaseCancelledButPrestart ==
    [][phase' # phase =>
          IF phase # "PRESTART" THEN LeftPhaseCancelled ELSE atasks' = atasks]_vars
\* a task under scope PRESTART that runs on in phase START
C28_Witness ==
    /\ phase = "START"
    /\ \E i \in 1..Len(atasks) :
          atasks[i].scope = PlainKey("PRESTART") /\ atasks[i].st = "pending"
\* a task under scope START, cancelled when START was left
C28_WitnessCancelled ==
    /\ phase = "STOP"
    /\ \E i \in 1..Len(atasks) :
          atasks[i].scope = PlainKey("START") /\ atasks[i].st = "cancelled"

\* C29: zof_event_loop ends only when its task was cancelled, and then between
\* two events, not inside the dispatch of one; an exception raised while an
\* event is booked or dispatched (CHANNEL_DOWN for an unknown conn_id, a
\* repeated CHANNEL_UP, an on_exception handler that raises) is logged by the
\* loop, which goes on with the events queued behind it.
LoopEnds == zrun = "loop" /\ zrun' # "loop"
ExceptionLogged == zerrors' = zerrors + 1
OnExceptionFailed ==
    \E p \in Len(zlog) + 1..Len(zlog') : zlog'[p].k = "excfail"
BookkeepingFailed ==
    /\ running = LoopTask /\ zrun = "loop" /\ event_queue # <<>>
    /\ event_queue' = Tail(event_queue)
    /\ \/ Head(event_queue).type = "CHANNEL_DOWN"
          /\ connections[Head(event_queue).conn_id] = 0
       \/ Head(event_queue).type = "CHANNEL_UP"
          /\ \/ connections[Head(event_queue).conn_id] # 0
             \/ dpids[ParseDatapathId(Head(event_queue).datapath_id)] # 0
\* the loop is in its next iteration, with the later events still queued
LoopGoesOn ==
    /\ zrun' = "loop" /\ running' = LoopTask
    /\ event_queue' = Tail(event_queue)
\* the loop sleeps only on an empty queue
NoEventLeftWaiting ==
    (zrun = "loop" /\ running = NoTask /\ event_queue # <<>> /\ ~zcancel)
        => \E i \in 1..Len(ready) : ready[i] = LoopTask
C29_LoopOutlivesExceptions ==
    [][/\ LoopEnds => (zcancel /\ running = NoTask)
       /\ (OnExceptionFailed \/ BookkeepingFailed) => (ExceptionLogged /\ LoopGoesOn)
       /\ zerrors' # zerrors => (ExceptionLogged /\ LoopGoesOn)
       /\ NoEventLeftWaiting']_vars
\* an on_exception handler raised, a later event was dispatched all the same,
\* and the loop ended when it was cancelled
C29_Witness ==
    /\ zrun = "done"
    /\ \E p, q \in LogIdx :
          /\ p < q /\ zlog[p].k = "excfail"
          /\ IsCall(q) /\ zlog[q].seq > zlog[p].seq

\* C30: for an event of type T, zof_find_handlers returns the on_<lowercase T>
\* methods of the apps in the order of the apps, zof_dispatch_event calls them
\* in that order, and every later lookup for T returns the same tuple.
LookedUp == zfound'.n = zfound.n + 1
FirstFound(name) == zfirst[name].handlers
ReturnsOnFirstLookup(hs) ==
    /\ LookedUp
    /\ IF zfirst[handler_name(zfound'.type)].cached
       THEN zfound'.handlers = FirstFound(handler_name(zfound'.type))
       ELSE zfound'.handlers = hs
    /\ zfound'.kind = "dispatch" => zfound'.calls = zfound'.handlers
C30_AppMethodsInOrder ==
    [][LookedUp =>
          ReturnsOnFirstLookup(AppMethods(zmethods, handler_name(zfound'.type)))]_vars
\* as amended: CHANNEL_ALERT, when no app has on_channel_alert, gets the
\* controller's own on_channel_alert
C30_AppMethodsOrDefault ==
    [][LookedUp =>
          ReturnsOnFirstLookup(BuiltHandlers(zmethods, handler_name(zfound'.type)))]_vars
\* a dispatch that called the methods of two apps, found by a lookup made before
\* one of the apps lost the method
C30_Witness ==
    /\ zfound.kind = "dispatch" /\ zfound.n > 1 /\ zfound.changes > 0
    /\ Len(zfound.calls) = 2
    /\ zfound.calls # AppMethods(zmethods, handler_name(zfound.type))

\* ---------------------------------------------------------------- the yield
\* the step dispatched an event: handler calls were added to the log
DispatchedNow == \E p \in 1..Len(zlog') : p > Len(zlog) /\ zlog'[p].k = "call"
\* the loop task has given up the thread and is the last entry of the ready queue
LoopYielded(rdy, pc, run) ==
    /\ pc = "yield" /\ run = NoTask
    /\ rdy # <<>> /\ rdy[Len(rdy)] = LoopTask
    /\ \A i \in 1..(Len(rdy) - 1) : rdy[i] # LoopTask
\* task i took its first step before position p of the log
BegunBefore(i, p) == \E b \in LogIdx : b < p /\ IsTask(b, "BEGIN", i)

TimedOut(h) ==
    delivered[h] # <<>> /\ delivered[h][Len(delivered[h])].k = "timeout"

\* C34 (as claimed): a handle is in the reply table exactly when its _done is
\* false: a registered handle is not done, and a handle that left the table, by
\* a last reply, an error or a timeout, is done.
C34_InTableIffNotDone ==
    \A h \in Handles : Registered(h) <=> ~futs[h].done

\* the same statement for the handles that were not timed out, which holds
C34_InTableIffNotDoneUnlessTimedOut ==
    \A h \in Handles : ~TimedOut(h) => (Registered(h) <=> ~futs[h].done)

\* ---------------------------------------------------------------- cancelled awaiter
\* C37 (as claimed): a reply or a timeout for a request whose awaiting task was
\* cancelled while it was suspended on the handle leaves _event_loop running and
\* the sweeper armed, and the last reply or the timeout takes the xid out of the
\* table.
C37_CancelledAwaiterHarmless ==
    /\ evloop = "running"
    /\ idle_due # NotArmed
    /\ \A h \in Handles : \A i \in 1..Len(delivered[h]) :
          (delivered[h][i].refused /\ Terminal(delivered[h][i])) => ~Registered(h)

\* without a cancelled awaiter they do go on
C37_HarmlessWithoutCancel ==
    (\A h \in Handles : consumers[h].pc # "cancelled") =>
        (evloop = "running" /\ idle_due # NotArmed)

\* ---------------------------------------------------------------- EXIT
\* _event_loop took an event off its queue in this step
Dequeued == Len(ctl_queue') < Len(ctl_queue)
\* nothing was given to an app, and no rpc call was answered, in this step
NothingDispatched ==
    /\ app_events' = app_events
    /\ chan_msgs' = chan_msgs
    /\ Len(atasks') = Len(atasks)
    /\ rpc' \in {"result", "error"} => rpc' = rpc

\* C36: the EXIT event is never given to an app; the step of _event_loop that
\* takes EXIT off the queue dispatches nothing and ends the loop; and once the
\* loop has ended no event is taken off the queue or dispatched any more.
C36_ExitStopsDispatch ==
    /\ [](\A i \in 1..Len(app_events) : app_events[i] # "EXIT")
    /\ [][(Dequeued /\ Head(ctl_queue) = Internal("EXIT"))
             => (loop_pc' = "done" /\ NothingDispatched)]_vars
    /\ [][loop_pc = "done"
             => (loop_pc' = "done" /\ ~Dequeued /\ NothingDispatched)]_vars

\* C36 witness: the loop has ended on EXIT after it had dispatched events, and
\* a channel message that was queued behind EXIT is still in the queue.
C36_Witness ==
    /\ loop_pc = "done"
    /\ app_events # <<>>
    /\ \E i \in 1..Len(events_posted) : events_posted[i] = "EXIT"
    /\ \E i \in 1..Len(ctl_queue) : ctl_queue[i].kind = "msg"


NameInUse ==
    \E i \in 1..Len(controller_apps) : controller_apps[i].name = last_op'.arg

CallsOf(a) == SelectSeq(last_op.calls, LAMBDA c : c.app = a)
\* the positions, in app a's list for the event's type, of the handlers that
\* match the event
Matching(a) ==
    {p \in 1..Len(app_handlers[a][last_op.event.type]) :
        match(app_handlers[a][last_op.event.type][p], last_op.event)}
\* the first matching position after p, 0 if there is none
NextMatching(a, p) ==
    IF \E q \in Matching(a) : q > p
    THEN CHOOSE q \in Matching(a) : q > p /\ \A r \in Matching(a) : r > p => q <= r
    ELSE 0

\* C38: within one app an event goes to the matching handlers in the order of
\* their subscription: the first matching handler is called; after a handler
\* that raised FallThroughException the next matching handler is called; the
\* first handler that returns normally is the last one called; a handler that
\* does not match the event is not called.
C38_HandlersInOrder ==
    last_op.op = "deliver" =>
        \A a \in 1..Len(app_handlers) :
            LET calls == CallsOf(a)
                own == app_handlers[a][last_op.event.type]
            IN /\ \A i \in 1..Len(calls) :
                     /\ calls[i].pos \in Matching(a)
                     /\ calls[i].callback = own[calls[i].pos].callback
                     /\ calls[i].result = "return" => i = Len(calls)
                     /\ calls[i].result = "fallthrough" =>
                           IF NextMatching(a, calls[i].pos) = 0
                           THEN i = Len(calls)
                           ELSE /\ i < Len(calls)
                                /\ calls[i + 1].pos = NextMatching(a, calls[i].pos)
               /\ Matching(a) # {} =>
                     /\ calls # <<>>
                     /\ calls[1].pos = NextMatching(a, 0)
               /\ \A i, j \in 1..Len(calls) : i < j => calls[i].pos < calls[j].pos

\* an app with two handlers for the event: the first raised
\* FallThroughException, the second returned
C38_Witness ==
    /\ last_op.op = "deliver"
    /\ \E a \in 1..Len(app_handlers) :
          /\ Len(CallsOf(a)) = 2
          /\ CallsOf(a)[1].result = "fallthrough"
          /\ CallsOf(a)[2].result = "return"

\* the same with a handler for another subtype, which was passed over
C38_WitnessSkipped ==
    /\ last_op.op = "deliver"
    /\ \E a \in 1..Len(app_handlers) :
          /\ Len(app_handlers[a][last_op.event.type]) = 2
          /\ Matching(a) = {2}
          /\ Len(CallsOf(a)) = 1


\* ---------------------------------------------------------------- C40
\* app a has a handler with the callback
HasHandler(hs, a, callback) ==
    \E t \in HandlerTypes : \E i \in 1..Len(hs[a][t]) : hs[a][t][i].callback = callback

\* C40: after an app has called unsubscribe(callback) through its facade, the
\* app's lists hold no handler with that callback (so none that a later event
\* could call), and the call added no handler.
C40_FacadeUnsubscribeRemoves ==
    /\ [](last_op.op = "facade_unsubscribe" =>
             ~HasHandler(app_handlers, last_op.app, last_op.arg))
    /\ [][last_op'.op = "facade_unsubscribe" =>
             Subscribed(app_handlers', Len(app_handlers))
                 <= Subscribed(app_handlers, Len(app_handlers))]_vars

\* the call through the facade raises TypeError and changes no list: it adds
\* no handler
C40_FacadeUnsubscribeRaises ==
    [][last_op'.op = "facade_unsubscribe" =>
          (last_op'.raised = "TypeError" /\ app_handlers' = app_handlers)]_vars

\* ControllerApp.unsubscribe, called on the app object, removes one handler
\* with the callback if there is one, and nothing else
C40_AppUnsubscribeRemoves ==
    [][last_op'.op = "unsubscribe" =>
          LET a == last_op'.app
          IN Subscribed(app_handlers', Len(app_handlers)) =
                Subscribed(app_handlers, Len(app_handlers))
                    - (IF HasHandler(app_handlers, a, last_op'.arg) THEN 1 ELSE 0)]_vars


\* ---------------------------------------------------------------- C35, C39
\* the key a task belongs under: the scope it was given, or the phase that was
\* current when _ensure_future was called
ScopeOf(i) ==
    IF wrapped[i].given # <<>> THEN wrapped[i].given ELSE PlainKey(wrapped[i].at_phase)

\* C35: a task made by _ensure_future has exactly one entry in the registry,
\* under the scope it was given or else the phase of its creation, from its
\* creation until its done-callback runs, however it ended; the done-callback
\* removes that entry, once, and afterwards the registry has no entry of the
\* task.
C35_RecordedUntilDone ==
    \A i \in 1..Len(wrapped) :
        IF wrapped[i].pc = "called_back"
        THEN /\ EntriesOf(tasks_registry, i) = {}
             /\ wrapped[i].removed = 1
             /\ wrapped[i].raised = ""
        ELSE /\ Cardinality(EntriesOf(tasks_registry, i)) = 1
             /\ \A k \in EntriesOf(tasks_registry, i) : tasks_registry[k].key = ScopeOf(i)
             /\ wrapped[i].removed = 0

\* two tasks started in phase START without a scope, after the phase has moved
\* on: one has ended cancelled and its callback has run, the other is still
\* recorded under START
C35_Witness ==
    /\ Len(wrapped) = 2
    /\ phase = "STOP"
    /\ wrapped[1].given = <<>> /\ wrapped[1].at_phase = "START"
    /\ wrapped[1].pc = "called_back" /\ wrapped[1].end = "cancelled"
    /\ wrapped[2].pc # "called_back"
    /\ tasks_registry = <<[key |-> PlainKey("START"), task |-> 2]>>

\* the task was cancelled, or its coroutine raised
CancelledOrRaised(i) == atasks[i].st = "cancelled" \/ wrapped[i].outcome = "raise"
Ended(i) == wrapped[i].pc \in {"finished", "called_back"}

\* C39: a task that was cancelled, or whose coroutine raised, has ended by the
\* wrapper returning, with the cancellation or the exception caught and logged
\* by the wrapper; no step of a task changes another task.
C39_CaughtAndLogged ==
    /\ [](\A i \in 1..Len(wrapped) :
             (Ended(i) /\ CancelledOrRaised(i)) =>
                 (wrapped[i].end = "returned" /\ wrapped[i].logged # ""))
    /\ [][\A i \in 1..Len(wrapped) :
             (wrapped'[i].pc # wrapped[i].pc /\ Ended(i)')
                 => \A j \in 1..Len(wrapped) :
                       j # i => (wrapped'[j] = wrapped[j] /\ atasks'[j] = atasks[j])]_vars

\* the same where the wrapper has been entered; a task that was cancelled
\* before its first step ends cancelled, with nothing logged, and no step of a
\* task changes another task.
C39_CaughtOnceStarted ==
    /\ [](\A i \in 1..Len(wrapped) :
             (Ended(i) /\ CancelledOrRaised(i)) =>
                 IF wrapped[i].outcome = ""
                 THEN wrapped[i].end = "cancelled" /\ wrapped[i].logged = ""
                 ELSE /\ wrapped[i].end = "returned"
                      /\ wrapped[i].outcome = "raise" => wrapped[i].logged = "exception"
                      /\ wrapped[i].outcome = "propagate" => wrapped[i].logged = "cancelled")
    /\ [][\A i \in 1..Len(wrapped) :
             (wrapped'[i].pc # wrapped[i].pc /\ Ended(i)')
                 => \A j \in 1..Len(wrapped) :
                       j # i => (wrapped'[j] = wrapped[j] /\ atasks'[j] = atasks[j])]_vars

\* one task was cancelled at its await and the wrapper logged it, the other
\* was cancelled before its first step and ended cancelled
C39_Witness ==
    /\ Len(wrapped) = 2
    /\ wrapped[1].outcome = "propagate" /\ wrapped[1].logged = "cancelled"
    /\ wrapped[2].pc = "finished" /\ wrapped[2].outcome = ""
    /\ wrapped[2].end = "cancelled"

\* a task whose coroutine raised: the wrapper logged the exception
C39_WitnessRaised ==
    \E i \in 1..Len(wrapped) :
        wrapped[i].outcome = "raise" /\ wrapped[i].logged = "exception"

\* a task was cancelled before its first step and has ended
C39_WitnessUnstarted ==
    \E i \in 1..Len(wrapped) :
        Ended(i) /\ wrapped[i].outcome = "" /\ wrapped[i].end = "cancelled"

====
